---- MODULE Spec2Model ----
(***************************************************************************)
(* Model of the document marker/index engine of mcp-gdocs:                 *)
(*   src/src/document-parser.ts  (Reader, Locator, Writer)                 *)
(*   src/src/google-docs.ts      (the position-based tool operations)      *)
(*                                                                         *)
(* A string is a sequence of one-character strings; positions inside the   *)
(* operators that mirror JavaScript code are 0-based like the code's.      *)
(***************************************************************************)
EXTENDS Integers, Sequences, FiniteSets, TLC

VARIABLES
    op,              \* the operation that has run ("none" before the call)
    content,         \* marked text handed to the Writer
    insertionIndex,  \* target Position of the Writer
    parsed,          \* ParsedContent {plainText, formattingRequests}
    requests,        \* the Edit Operation list built by the call
    document,        \* the snapshot returned by documents.get
    searchText,      \* the heading query of the call
    heading,         \* HeadingInfo found for the query, or Null
    sectionEnd,      \* findSectionEnd of that heading, or -1 when not computed
    applied,         \* the request lists handed to documents.batchUpdate
    result,          \* the returned message, or the thrown error
    remote,          \* the document the service holds
    operations,      \* batchOperations: the sub-operations
    stopOnError,     \* batchOperations: the policy
    loopIndex,       \* batchOperations: the loop variable i
    results,         \* batchOperations: one entry per attempted sub-operation
    completedOperations,
    events,          \* the calls made to the service, in order
    pc,              \* batchOperations: the position in the loop
    textLines,       \* documentToText: the lines collected for the join
    caseSensitive,   \* findTextInDocument: the caseSensitive argument
    currentDocument, \* mcp-server: the module variable currentDocument
    event,           \* index.ts handler: the API Gateway event handled last
    response,        \* index.ts handler: its APIGatewayProxyResult
    calls,           \* the functions the handler called for that event, in order
    includeSubsections, \* extractSectionContent: the includeSubsections argument
    elem,            \* findTextInDocument: the text run of the for loops
    searchStart,     \* findTextInDocument: the variable searchStart
    foundIndex       \* findTextInDocument: the variable foundIndex

batchVars == <<operations, stopOnError, loopIndex, results, completedOperations, events, pc>>

vars == <<op, content, insertionIndex, parsed, requests, document, searchText,
          heading, sectionEnd, applied, result, remote, batchVars, textLines, caseSensitive,
          currentDocument, event, response, calls,
          includeSubsections, elem, searchStart, foundIndex>>

serverVars == <<currentDocument, event, response, calls>>

scanVars == <<includeSubsections, elem, searchStart, foundIndex>>

\* the null of `HeadingInfo | null`: no heading has level 0
Null == [text |-> <<>>, level |-> 0, startIndex |-> -1, endIndex |-> -1]

\* the null of `currentDocument`
NoCurrentDocument == [id |-> <<>>, name |-> <<>>, none |-> TRUE]

\* no event has been handled
NoEvent == [httpMethod |-> "none", token |-> <<>>, body |-> [kind |-> "empty"]]

NoResponse == [statusCode |-> 0, body |-> [kind |-> "none"]]

\* the module is loaded; the handler has not run
NoServer ==
    /\ currentDocument = NoCurrentDocument
    /\ event = NoEvent
    /\ response = NoResponse
    /\ calls = <<>>

\* no section is being extracted and no text run is being scanned
NoScan ==
    /\ includeSubsections = TRUE
    /\ elem = 0
    /\ searchStart = 0
    /\ foundIndex = -1

(***************************************************************************)
(* Characters                                                              *)
(***************************************************************************)
NL == "\n"
\* the bullet sign U+2022 of document-parser.ts:66 and :316, as one character
BULLET == "U+2022"

\* String.prototype.toLowerCase on the letters the model uses
LowerChar(c) ==
    CASE c = "P" -> "p"
      [] c = "B" -> "b"
      [] c = "A" -> "a"
      [] OTHER -> c

toLowerCase(s) == [i \in 1..Len(s) |-> LowerChar(s[i])]

\* white space as String.prototype.trim sees it
IsSpace(c) == c \in {" ", NL}

RECURSIVE trimStart(_)
trimStart(s) ==
    IF s # <<>> /\ IsSpace(Head(s)) THEN trimStart(Tail(s)) ELSE s

RECURSIVE trimEnd(_)
trimEnd(s) ==
    IF s # <<>> /\ IsSpace(s[Len(s)]) THEN trimEnd(SubSeq(s, 1, Len(s) - 1)) ELSE s

trim(s) == trimEnd(trimStart(s))

startsWith(s, p) == Len(s) >= Len(p) /\ SubSeq(s, 1, Len(p)) = p

endsWith(s, p) == Len(s) >= Len(p) /\ SubSeq(s, Len(s) - Len(p) + 1, Len(s)) = p

\* s.substring(from, to) with 0-based from (inclusive) and to (exclusive)
substring(s, from, to) == SubSeq(s, from + 1, to)

\* s.indexOf(c, from) for a one-character c: 0-based, -1 when absent
indexOfChar(s, c, from) ==
    LET hits == {i \in from..(Len(s) - 1) : s[i + 1] = c}
    IN  IF hits = {} THEN -1 ELSE CHOOSE i \in hits : \A j \in hits : i <= j

\* s.includes(p)
includes(s, p) ==
    \E i \in 0..(Len(s) - Len(p)) : SubSeq(s, i + 1, i + Len(p)) = p

\* s.replace(/\n$/, "")
stripFinalNewline(s) ==
    IF s # <<>> /\ s[Len(s)] = NL THEN SubSeq(s, 1, Len(s) - 1) ELSE s

\* s.split("\n")
RECURSIVE split(_)
split(s) ==
    LET p == indexOfChar(s, NL, 0)
    IN  IF p = -1 THEN <<s>>
        ELSE <<substring(s, 0, p)>> \o split(substring(s, p + 1, Len(s)))

\* lines.join("\n")
RECURSIVE join(_)
join(ls) ==
    IF ls = <<>> THEN <<>>
    ELSE IF Len(ls) = 1 THEN ls[1]
    ELSE ls[1] \o <<NL>> \o join(Tail(ls))

(***************************************************************************)
(* Writer: parseContentForInsertion                                        *)
(***************************************************************************)
H1Marker == <<"[", "H", "1", "]", " ">>
H2Marker == <<"[", "H", "2", "]", " ">>
H3Marker == <<"[", "H", "3", "]", " ">>
BulletMarker == <<BULLET, " ">>
StarMarker == <<"*", " ">>

\* lines 304-324: the marker at the start of a line, and the line without it
stripMarker(line) ==
    IF startsWith(line, H1Marker)
    THEN [headingLevel |-> 1, isBullet |-> FALSE, line |-> substring(line, 5, Len(line))]
    ELSE IF startsWith(line, H2Marker)
    THEN [headingLevel |-> 2, isBullet |-> FALSE, line |-> substring(line, 5, Len(line))]
    ELSE IF startsWith(line, H3Marker)
    THEN [headingLevel |-> 3, isBullet |-> FALSE, line |-> substring(line, 5, Len(line))]
    ELSE IF startsWith(line, BulletMarker)
    THEN [headingLevel |-> 0, isBullet |-> TRUE, line |-> substring(line, 2, Len(line))]
    ELSE IF startsWith(line, StarMarker)
    THEN [headingLevel |-> 0, isBullet |-> TRUE, line |-> substring(line, 2, Len(line))]
    ELSE [headingLevel |-> 0, isBullet |-> FALSE, line |-> line]

NoMatch == [index |-> -1]

\* /\[([^\]]+)\]\(([^)]+)\)/ tried at position p: both classes exclude their
\* own terminator, so the label ends at the first "]" and the url at the first ")"
linkMatchAt(line, p) ==
    IF p >= Len(line) \/ line[p + 1] # "[" THEN NoMatch
    ELSE LET q == indexOfChar(line, "]", p + 1)
         IN  IF q = -1 \/ q = p + 1 THEN NoMatch
             ELSE IF q + 1 >= Len(line) \/ line[q + 2] # "(" THEN NoMatch
             ELSE LET r == indexOfChar(line, ")", q + 2)
                  IN  IF r = -1 \/ r = q + 2 THEN NoMatch
                      ELSE [index |-> p,
                            linkText |-> substring(line, p + 1, q),
                            linkUrl |-> substring(line, q + 2, r),
                            length |-> r + 1 - p]

\* the next match of the global regex from lastIndex (leftmost first)
linkRegexExec(line, lastIndex) ==
    LET hits == {p \in lastIndex..(Len(line) - 1) : linkMatchAt(line, p) # NoMatch}
    IN  IF hits = {} THEN NoMatch
        ELSE linkMatchAt(line, CHOOSE p \in hits : \A j \in hits : p <= j)

\* mutant of linkStartIndexOf: the offset of the markup in the source line
linkStartIndexFromSource(currentIndex, processedLine, matchIndex) ==
    currentIndex + matchIndex

\* line 339: the offset of a link label in the inserted text
linkStartIndexOf(currentIndex, processedLine, matchIndex) ==
    currentIndex + Len(processedLine)

\* lines 333-350: the body of the loop for one match m
pushLink(line, currentIndex, st, m, before) ==
    [processedLine |-> before \o m.linkText,
     lastEnd |-> m.index + m.length,
     formattingRequests |->
         Append(st.formattingRequests,
                [type |-> "link",
                 startIndex |-> linkStartIndexOf(currentIndex, before, m.index),
                 endIndex |-> linkStartIndexOf(currentIndex, before, m.index)
                                  + Len(m.linkText),
                 url |-> m.linkUrl])]

\* lines 326-351: the loop over line.matchAll(linkRegex)
RECURSIVE scanLinks(_, _, _)
scanLinks(line, currentIndex, st) ==
    LET m == linkRegexExec(line, st.lastEnd)
    IN  IF m = NoMatch THEN st
        ELSE scanLinks(line, currentIndex,
                 pushLink(line, currentIndex, st, m,
                          st.processedLine \o substring(line, st.lastEnd, m.index)))

\* mutant of hasText: a marker alone styles its (empty) line
hasTextAlways(processedLine) == TRUE

\* lines 362 and 373: a marker styles a line only when text follows it
hasText(processedLine) == Len(processedLine) > 0

\* line 357: the line as emitted
lineWithNewlineOf(processedLine, isLastLine) ==
    IF isLastLine THEN processedLine ELSE processedLine \o <<NL>>

\* mutant of headingEndIndexOf: the range stops before the line's newline
headingEndIndexWithoutNewline(currentIndex, processedLine, lineWithNewline) ==
    currentIndex + Len(processedLine)

\* line 367: the end of a heading range
headingEndIndexOf(currentIndex, processedLine, lineWithNewline) ==
    currentIndex + Len(lineWithNewline)

\* lines 360-379: the heading and bullet requests of a line
lineRequests(mk, currentIndex, processedLine, lineWithNewline) ==
    (IF mk.headingLevel > 0 /\ hasText(processedLine)
     THEN <<[type |-> "heading",
             startIndex |-> currentIndex,
             endIndex |-> headingEndIndexOf(currentIndex, processedLine, lineWithNewline),
             level |-> mk.headingLevel]>>
     ELSE <<>>)
    \o (IF mk.isBullet /\ hasText(processedLine)
        THEN <<[type |-> "bullet",
                startIndex |-> currentIndex,
                endIndex |-> currentIndex + Len(lineWithNewline)]>>
        ELSE <<>>)

\* lines 356-382: emit the processed line and advance the cursor
emitLine(mk, formattingRequests, processedLine, lineWithNewline, acc) ==
    [plainText |-> acc.plainText \o lineWithNewline,
     currentIndex |-> acc.currentIndex + Len(lineWithNewline),
     formattingRequests |->
         formattingRequests
         \o lineRequests(mk, acc.currentIndex, processedLine, lineWithNewline)]

\* lines 353-357: the text after the last link, and the newline
finishLine(mk, scanned, isLastLine, acc) ==
    emitLine(mk, scanned.formattingRequests,
             scanned.processedLine \o substring(mk.line, scanned.lastEnd, Len(mk.line)),
             lineWithNewlineOf(
                 scanned.processedLine \o substring(mk.line, scanned.lastEnd, Len(mk.line)),
                 isLastLine),
             acc)

\* lines 326-351 for the line without its marker
scanLine(mk, isLastLine, acc) ==
    finishLine(mk,
               scanLinks(mk.line, acc.currentIndex,
                         [processedLine |-> <<>>, lastEnd |-> 0,
                          formattingRequests |-> acc.formattingRequests]),
               isLastLine, acc)

\* lines 300-383: one iteration of the loop over the lines
parseLine(rawLine, isLastLine, acc) == scanLine(stripMarker(rawLine), isLastLine, acc)

RECURSIVE parseLines(_, _, _)
parseLines(lines, i, acc) ==
    IF i > Len(lines) THEN acc
    ELSE parseLines(lines, i + 1, parseLine(lines[i], i = Len(lines), acc))

parseContentForInsertion(c, index) ==
    LET acc == parseLines(split(c), 1,
                   [plainText |-> <<>>, currentIndex |-> index,
                    formattingRequests |-> <<>>])
    IN  [plainText |-> acc.plainText, formattingRequests |-> acc.formattingRequests]

(***************************************************************************)
(* Writer: generateInsertRequests, generateDeleteRequest                   *)
(***************************************************************************)
BooleanStyleFields == "bold,italic,underline,strikethrough,smallCaps"

insertText(index, text) ==
    [kind |-> "insertText", index |-> index, text |-> text]

updateParagraphStyle(startIndex, endIndex, namedStyleType) ==
    [kind |-> "updateParagraphStyle", startIndex |-> startIndex,
     endIndex |-> endIndex, namedStyleType |-> namedStyleType]

updateTextStyle(startIndex, endIndex, fields, url) ==
    [kind |-> "updateTextStyle", startIndex |-> startIndex,
     endIndex |-> endIndex, fields |-> fields, url |-> url]

createParagraphBullets(startIndex, endIndex) ==
    [kind |-> "createParagraphBullets", startIndex |-> startIndex,
     endIndex |-> endIndex]

generateDeleteRequest(startIndex, endIndex) ==
    [kind |-> "deleteContentRange", startIndex |-> startIndex, endIndex |-> endIndex]

\* mutant of styleEndIndexOf: the reset runs through the final newline
styleEndIndexWithNewline(plainText, index) == index + Len(plainText)

\* lines 416-418: where the NORMAL_TEXT reset ends
styleEndIndexOf(plainText, index) ==
    IF endsWith(plainText, <<NL>>)
    THEN index + Len(plainText) - 1
    ELSE index + Len(plainText)

\* lines 402-455: the insert and the two resets
insertAndResets(plainText, index) ==
    IF plainText = <<>> THEN <<>>
    ELSE LET styleEndIndex == styleEndIndexOf(plainText, index)
         IN  <<insertText(index, plainText)>>
             \o (IF styleEndIndex > index
                 THEN <<updateParagraphStyle(index, styleEndIndex, "NORMAL_TEXT")>>
                 ELSE <<>>)
             \o <<updateTextStyle(index, index + Len(plainText), BooleanStyleFields, <<>>)>>

\* one step of the stable sort with comparator (a, b) => b.startIndex - a.startIndex
insertSorted(sorted, f) ==
    LET k == Cardinality({j \in 1..Len(sorted) : sorted[j].startIndex >= f.startIndex})
    IN  SubSeq(sorted, 1, k) \o <<f>> \o SubSeq(sorted, k + 1, Len(sorted))

RECURSIVE sortFrom(_, _, _)
sortFrom(fs, i, sorted) ==
    IF i > Len(fs) THEN sorted ELSE sortFrom(fs, i + 1, insertSorted(sorted, fs[i]))

\* mutant of sortedFormattingOf: the requests in the order they were recorded
unsortedFormattingOf(formattingRequests) == formattingRequests

\* lines 458-460
sortedFormattingOf(formattingRequests) == sortFrom(formattingRequests, 1, <<>>)

\* lines 463-508: the request of one Formatting Request
formatRequest(fmt) ==
    IF fmt.type = "heading" /\ fmt.level # 0
    THEN <<updateParagraphStyle(fmt.startIndex, fmt.endIndex,
               IF fmt.level = 1 THEN "HEADING_1"
               ELSE IF fmt.level = 2 THEN "HEADING_2" ELSE "HEADING_3")>>
    ELSE IF fmt.type = "bullet"
    THEN <<createParagraphBullets(fmt.startIndex, fmt.endIndex)>>
    ELSE IF fmt.type = "link" /\ fmt.url # <<>>
    THEN <<updateTextStyle(fmt.startIndex, fmt.endIndex, "link", fmt.url)>>
    ELSE <<>>

RECURSIVE formatRequests(_, _)
formatRequests(sortedFormatting, i) ==
    IF i > Len(sortedFormatting) THEN <<>>
    ELSE formatRequest(sortedFormatting[i]) \o formatRequests(sortedFormatting, i + 1)

\* mutant of generateInsertRequests: the two resets come last
generateInsertRequestsResetsLast(c, index) ==
    LET p == parseContentForInsertion(c, index)
    IN  IF p.plainText = <<>> THEN <<>>
        ELSE <<insertText(index, p.plainText)>>
             \o formatRequests(sortedFormattingOf(p.formattingRequests), 1)
             \o Tail(insertAndResets(p.plainText, index))

generateInsertRequests(c, index) ==
    LET p == parseContentForInsertion(c, index)
    IN  insertAndResets(p.plainText, index)
        \o formatRequests(sortedFormattingOf(p.formattingRequests), 1)

(***************************************************************************)
(* Structured documents (docs_v1.Schema$Document)                          *)
(***************************************************************************)
\* the section break every body starts with; it carries no startIndex
SectionBreak == [startIndex |-> 0, endIndex |-> 1, sectionBreak |-> TRUE]

isParagraph(element) == "paragraph" \in DOMAIN element

\* a paragraph of one text run; its content ends with the paragraph's newline
paragraphElement(start, style, text) ==
    [startIndex |-> start,
     endIndex |-> start + Len(text) + 1,
     paragraph |->
         [namedStyleType |-> style,
          bullet |-> FALSE,
          elements |-> <<[startIndex |-> start,
                          endIndex |-> start + Len(text) + 1,
                          content |-> text \o <<NL>>,
                          link |-> <<>>]>>]]

\* the service assigns contiguous offsets, the first paragraph starting at 1
RECURSIVE layout(_, _, _)
layout(paras, k, start) ==
    IF k > Len(paras) THEN <<>>
    ELSE <<paragraphElement(start, paras[k].style, paras[k].text)>>
         \o layout(paras, k + 1, start + Len(paras[k].text) + 1)

Document(paras) == [body |-> [content |-> <<SectionBreak>> \o layout(paras, 1, 1)]]

\* the text runs of a paragraph, laid out from offset start
RECURSIVE runElements(_, _, _)
runElements(runs, k, start) ==
    IF k > Len(runs) THEN <<>>
    ELSE <<[startIndex |-> start,
            endIndex |-> start + Len(runs[k].content),
            content |-> runs[k].content,
            link |-> runs[k].link]>>
         \o runElements(runs, k + 1, start + Len(runs[k].content))

RECURSIVE runsLength(_, _)
runsLength(runs, k) ==
    IF k > Len(runs) THEN 0 ELSE Len(runs[k].content) + runsLength(runs, k + 1)

isTable(element) == "table" \in DOMAIN element

\* a paragraph of several runs with a bullet attribute, or a table
blockElement(start, block) ==
    IF block.table
    THEN [startIndex |-> start, endIndex |-> start + 4, table |-> TRUE]
    ELSE [startIndex |-> start,
          endIndex |-> start + runsLength(block.runs, 1),
          paragraph |-> [namedStyleType |-> block.style,
                         bullet |-> block.bullet,
                         elements |-> runElements(block.runs, 1, start)]]

RECURSIVE blockLayout(_, _, _)
blockLayout(blocks, k, start) ==
    IF k > Len(blocks) THEN <<>>
    ELSE <<blockElement(start, blocks[k])>>
         \o blockLayout(blocks, k + 1, blockElement(start, blocks[k]).endIndex)

BlockDocument(blocks) ==
    [body |-> [content |-> <<SectionBreak>> \o blockLayout(blocks, 1, 1)]]

(***************************************************************************)
(* Reader: documentToText                                                  *)
(***************************************************************************)
\* lines 54-61
headingPrefix(paragraphStyle) ==
    CASE paragraphStyle = "HEADING_1" -> H1Marker
      [] paragraphStyle = "HEADING_2" -> H2Marker
      [] paragraphStyle = "HEADING_3" -> H3Marker
      [] OTHER -> <<>>

\* prefixOf as extractSectionContent (lines 684-688) has it: the heading
\* prefix wins over the bullet
prefixHeadingFirst(paragraph) ==
    IF headingPrefix(paragraph.namedStyleType) # <<>>
    THEN headingPrefix(paragraph.namedStyleType)
    ELSE IF paragraph.bullet THEN BulletMarker ELSE <<>>

\* lines 53-67: the bullet prefix replaces the heading prefix
prefixOf(paragraph) ==
    IF paragraph.bullet THEN BulletMarker
    ELSE headingPrefix(paragraph.namedStyleType)

\* lines 75-91: a run, as [text](url) when it carries a link and has text
runText(run) ==
    IF run.link # <<>> /\ trim(run.content) # <<>>
    THEN <<"[">> \o stripFinalNewline(run.content) \o <<"]", "(">> \o run.link
         \o <<")">> \o (IF endsWith(run.content, <<NL>>) THEN <<NL>> ELSE <<>>)
    ELSE run.content

\* lines 74-95: textParts.join("")
RECURSIVE paragraphText(_, _)
paragraphText(elements, k) ==
    IF k > Len(elements) THEN <<>>
    ELSE runText(elements[k]) \o paragraphText(elements, k + 1)

\* pushedLines with a blank line for every paragraph that is blank after trimming
pushedLinesBlank(prefix, text) ==
    IF trim(text) # <<>> THEN <<prefix \o stripFinalNewline(text)>> ELSE << <<>> >>

\* lines 97-103: the lines pushed for a paragraph
pushedLines(prefix, text) ==
    IF trim(text) # <<>> THEN <<prefix \o stripFinalNewline(text)>>
    ELSE IF text = <<NL>> THEN << <<>> >>
    ELSE <<>>

\* lines 49-106
elementLines(element) ==
    IF isParagraph(element)
    THEN pushedLines(prefixOf(element.paragraph),
                     paragraphText(element.paragraph.elements, 1))
    ELSE IF isTable(element) THEN << <<"[", "T", "A", "B", "L", "E", "]">> >>
    ELSE <<>>

RECURSIVE documentLines(_, _)
documentLines(elements, k) ==
    IF k > Len(elements) THEN <<>>
    ELSE elementLines(elements[k]) \o documentLines(elements, k + 1)

documentToText(doc) == join(documentLines(doc.body.content, 1))

(***************************************************************************)
(* Locator: findTextInDocument                                             *)
(***************************************************************************)
\* s.indexOf(p, from): 0-based, -1 when absent; an empty p is found at
\* min(from, s.length)
indexOf(s, p, from) ==
    LET hits == {k \in from..(Len(s) - Len(p)) : SubSeq(s, k + 1, k + Len(p)) = p}
    IN  IF p = <<>> THEN (IF from <= Len(s) THEN from ELSE Len(s))
        ELSE IF hits = {} THEN -1
        ELSE CHOOSE k \in hits : \A j \in hits : k <= j

\* lines 250, 258: the text as compared
folded(text, sensitive) == IF sensitive THEN text ELSE toLowerCase(text)

\* mutant of nextSearchStart: the search goes on after the match
nextSearchStartAfterMatch(found, needleLength) == found + needleLength

\* line 271
nextSearchStart(found, needleLength) == found + 1

\* lines 266-270
textMatch(run, found, needleLength) ==
    [text |-> substring(run.content, found, found + needleLength),
     startIndex |-> run.startIndex + found,
     endIndex |-> run.startIndex + found + needleLength]

\* lines 262-273: the while loop over one text run, for a non-empty needle
RECURSIVE runMatches(_, _, _, _)
runMatches(run, needle, sensitive, start) ==
    LET found == indexOf(folded(run.content, sensitive),
                              folded(needle, sensitive), start)
    IN  IF found = -1 THEN <<>>
        ELSE <<textMatch(run, found, Len(needle))>>
             \o runMatches(run, needle, sensitive,
                           nextSearchStart(found, Len(needle)))

\* lines 255-275: the text runs with content of a paragraph
RECURSIVE paragraphMatches(_, _, _, _)
paragraphMatches(elements, k, needle, sensitive) ==
    IF k > Len(elements) THEN <<>>
    ELSE (IF elements[k].content # <<>>
          THEN runMatches(elements[k], needle, sensitive, 0)
          ELSE <<>>)
         \o paragraphMatches(elements, k + 1, needle, sensitive)

RECURSIVE contentMatches(_, _, _, _)
contentMatches(elements, k, needle, sensitive) ==
    IF k > Len(elements) THEN <<>>
    ELSE (IF isParagraph(elements[k])
          THEN paragraphMatches(elements[k].paragraph.elements, 1, needle, sensitive)
          ELSE <<>>)
         \o contentMatches(elements, k + 1, needle, sensitive)

findTextInDocument(doc, needle, sensitive) ==
    contentMatches(doc.body.content, 1, needle, sensitive)

(***************************************************************************)
(* The document service (documents.batchUpdate): the body is a text whose  *)
(* character at index i is text[i]; every paragraph ends with a newline    *)
(* and carries its named style on it.  A batch is applied in list order    *)
(* and as a whole: one rejected request leaves the document as it was.     *)
(***************************************************************************)
RECURSIVE bodyText(_, _)
bodyText(elements, k) ==
    IF k > Len(elements) THEN <<>>
    ELSE (IF isParagraph(elements[k])
          THEN elements[k].paragraph.elements[1].content
          ELSE <<>>)
         \o bodyText(elements, k + 1)

RECURSIVE bodyStyles(_, _)
bodyStyles(elements, k) ==
    IF k > Len(elements) THEN <<>>
    ELSE (IF isParagraph(elements[k])
          THEN [j \in 1..Len(elements[k].paragraph.elements[1].content) |->
                    elements[k].paragraph.namedStyleType]
          ELSE <<>>)
         \o bodyStyles(elements, k + 1)

\* the stored body of a document
bodyOf(doc) ==
    [text |-> bodyText(doc.body.content, 1), styles |-> bodyStyles(doc.body.content, 1)]

\* position of the newline that ends the paragraph of position j
paragraphEnd(text, j) == indexOfChar(text, NL, j - 1) + 1

\* the paragraphs of a body from position `from` on
RECURSIVE paragraphsFrom(_, _)
paragraphsFrom(b, from) ==
    IF from > Len(b.text) THEN <<>>
    ELSE <<[style |-> b.styles[paragraphEnd(b.text, from)],
            text |-> SubSeq(b.text, from, paragraphEnd(b.text, from) - 1)]>>
         \o paragraphsFrom(b, paragraphEnd(b.text, from) + 1)

\* the snapshot documents.get returns for a stored body
snapshotOf(b) == IF b.text = <<>> THEN [body |-> [content |-> <<>>]]
                 ELSE Document(paragraphsFrom(b, 1))

\* the service rejects an index outside the body, an insert at or after the
\* end of the body, an empty range and a delete of the final newline
accepts(b, r) ==
    CASE r.kind = "insertText" -> 1 <= r.index /\ r.index <= Len(b.text)
      [] r.kind = "deleteContentRange" ->
             1 <= r.startIndex /\ r.startIndex < r.endIndex /\ r.endIndex <= Len(b.text)
      [] OTHER ->
             1 <= r.startIndex /\ r.startIndex < r.endIndex /\ r.endIndex <= Len(b.text) + 1

\* inserted characters, newlines included, take the paragraph style found at
\* the insertion index
applyInsertText(b, index, text) ==
    [text |-> SubSeq(b.text, 1, index - 1) \o text
                  \o SubSeq(b.text, index, Len(b.text)),
     styles |-> SubSeq(b.styles, 1, index - 1)
                  \o [j \in 1..Len(text) |-> b.styles[index]]
                  \o SubSeq(b.styles, index, Len(b.styles))]

applyDeleteContentRange(b, startIndex, endIndex) ==
    [text |-> SubSeq(b.text, 1, startIndex - 1) \o SubSeq(b.text, endIndex, Len(b.text)),
     styles |-> SubSeq(b.styles, 1, startIndex - 1)
                  \o SubSeq(b.styles, endIndex, Len(b.styles))]

\* position of the first character of the paragraph of position j
RECURSIVE paragraphStart(_, _)
paragraphStart(text, j) ==
    IF j = 1 \/ text[j - 1] = NL THEN j ELSE paragraphStart(text, j - 1)

\* the body with the style set on the positions first..last
restyled(b, first, last, namedStyleType) ==
    [text |-> b.text,
     styles |-> [j \in 1..Len(b.text) |->
                    IF first <= j /\ j <= last THEN namedStyleType ELSE b.styles[j]]]

\* the style is set on every paragraph that overlaps [startIndex, endIndex):
\* from the paragraph of startIndex to the paragraph of endIndex - 1
applyUpdateParagraphStyle(b, startIndex, endIndex, namedStyleType) ==
    restyled(b, paragraphStart(b.text, startIndex),
             paragraphEnd(b.text, endIndex - 1), namedStyleType)

\* text styles and bullets do not change the text or the named styles
applyRequest(b, r) ==
    CASE r.kind = "insertText" -> applyInsertText(b, r.index, r.text)
      [] r.kind = "deleteContentRange" ->
             applyDeleteContentRange(b, r.startIndex, r.endIndex)
      [] r.kind = "updateParagraphStyle" ->
             applyUpdateParagraphStyle(b, r.startIndex, r.endIndex, r.namedStyleType)
      [] OTHER -> b

\* replaceAllText: containsText at position k of the body
matchesAt(text, k, needle, matchCase) ==
    /\ k + Len(needle) - 1 <= Len(text)
    /\ IF matchCase THEN SubSeq(text, k, k + Len(needle) - 1) = needle
       ELSE toLowerCase(SubSeq(text, k, k + Len(needle) - 1)) = toLowerCase(needle)

RECURSIVE replacedText(_, _, _, _, _)
replacedText(text, k, needle, replaceText, matchCase) ==
    IF k > Len(text) THEN <<>>
    ELSE IF matchesAt(text, k, needle, matchCase)
    THEN replaceText \o replacedText(text, k + Len(needle), needle, replaceText, matchCase)
    ELSE <<text[k]>> \o replacedText(text, k + 1, needle, replaceText, matchCase)

\* the replacement takes the paragraph style found at the match
RECURSIVE replacedStyles(_, _, _, _, _)
replacedStyles(b, k, needle, replaceText, matchCase) ==
    IF k > Len(b.text) THEN <<>>
    ELSE IF matchesAt(b.text, k, needle, matchCase)
    THEN [j \in 1..Len(replaceText) |-> b.styles[k]]
         \o replacedStyles(b, k + Len(needle), needle, replaceText, matchCase)
    ELSE <<b.styles[k]>> \o replacedStyles(b, k + 1, needle, replaceText, matchCase)

RECURSIVE occurrencesChanged(_, _, _, _)
occurrencesChanged(text, k, needle, matchCase) ==
    IF k > Len(text) THEN 0
    ELSE IF matchesAt(text, k, needle, matchCase)
    THEN 1 + occurrencesChanged(text, k + Len(needle), needle, matchCase)
    ELSE occurrencesChanged(text, k + 1, needle, matchCase)

replaceAllText(b, needle, replaceText, matchCase) ==
    [text |-> replacedText(b.text, 1, needle, replaceText, matchCase),
     styles |-> replacedStyles(b, 1, needle, replaceText, matchCase)]

Rejected == [text |-> <<>>, styles |-> <<"rejected">>]

RECURSIVE applyRequests(_, _, _)
applyRequests(b, rs, k) ==
    IF k > Len(rs) THEN b
    ELSE IF ~accepts(b, rs[k]) THEN Rejected
    ELSE applyRequests(applyRequest(b, rs[k]), rs, k + 1)

\* the reply for the body b the batch has led to, and the document it leaves
replyOf(doc, b) ==
    IF b = Rejected THEN [ok |-> FALSE, document |-> doc]
    ELSE [ok |-> TRUE, document |-> snapshotOf(b)]

\* documents.batchUpdate
batchUpdate(doc, rs) == replyOf(doc, applyRequests(bodyOf(doc), rs, 1))

(***************************************************************************)
(* Locator: findHeadings, findHeadingByText, findSectionEnd                *)
(***************************************************************************)
\* lines 127-134
levelOf(paragraphStyle) ==
    CASE paragraphStyle = "HEADING_1" -> 1
      [] paragraphStyle = "HEADING_2" -> 2
      [] paragraphStyle = "HEADING_3" -> 3
      [] OTHER -> 0

\* lines 138-144: the concatenated content of the text runs
RECURSIVE runsText(_, _)
runsText(elements, k) ==
    IF k > Len(elements) THEN <<>>
    ELSE elements[k].content \o runsText(elements, k + 1)

\* lines 146-151
headingInfo(element) ==
    [text |-> trim(stripFinalNewline(runsText(element.paragraph.elements, 1))),
     level |-> levelOf(element.paragraph.namedStyleType),
     startIndex |-> element.startIndex,
     endIndex |-> element.endIndex]

RECURSIVE headingsFrom(_, _)
headingsFrom(elements, k) ==
    IF k > Len(elements) THEN <<>>
    ELSE (IF isParagraph(elements[k])
             /\ levelOf(elements[k].paragraph.namedStyleType) > 0
          THEN <<headingInfo(elements[k])>>
          ELSE <<>>)
         \o headingsFrom(elements, k + 1)

findHeadings(doc) == headingsFrom(doc.body.content, 1)

\* the first position of a non-empty set of positions
First(positions) == CHOOSE i \in positions : \A j \in positions : i <= j

\* line 171
exactMatches(headings, searchLower) ==
    {i \in 1..Len(headings) : toLowerCase(headings[i].text) = searchLower}

\* line 178
partialMatches(headings, searchLower) ==
    {i \in 1..Len(headings) : includes(toLowerCase(headings[i].text), searchLower)}

\* mutant of firstMatch: one pass that takes the first exact or partial match
firstMatchOnePass(headings, searchLower) ==
    IF exactMatches(headings, searchLower) \cup partialMatches(headings, searchLower) # {}
    THEN headings[First(exactMatches(headings, searchLower)
                        \cup partialMatches(headings, searchLower))]
    ELSE Null

\* lines 169-183: the exact pass, then the partial pass
firstMatch(headings, searchLower) ==
    IF exactMatches(headings, searchLower) # {}
    THEN headings[First(exactMatches(headings, searchLower))]
    ELSE IF partialMatches(headings, searchLower) # {}
    THEN headings[First(partialMatches(headings, searchLower))]
    ELSE Null

findHeadingByText(doc, text) == firstMatch(findHeadings(doc), trim(toLowerCase(text)))

\* mutant of getDocumentEndIndex: the exclusive end of the last element
getDocumentEndIndexInclusive(doc) ==
    IF doc.body.content = <<>> THEN 1
    ELSE doc.body.content[Len(doc.body.content)].endIndex

\* lines 216-225
getDocumentEndIndex(doc) ==
    IF doc.body.content = <<>> THEN 1
    ELSE doc.body.content[Len(doc.body.content)].endIndex - 1

\* mutant of endsSection: a deeper heading ends the section
endsSectionDeeper(next, h) == next.level >= h.level

\* line 204: a heading of the same or a higher level ends the section
endsSection(next, h) == next.level <= h.level

\* mutant of firstCandidate: the scan starts at the heading itself
firstCandidateSelf(headingIndex) == headingIndex

\* line 203: the scan starts after the heading
firstCandidate(headingIndex) == headingIndex + 1

\* lines 203-210, headings and headingIndex 1-based
sectionEndFrom(doc, headings, headingIndex, h) ==
    LET enders == {i \in firstCandidate(headingIndex)..Len(headings) :
                       endsSection(headings[i], h)}
    IN  IF enders = {} THEN getDocumentEndIndex(doc)
        ELSE headings[First(enders)].startIndex

\* mutant of sectionEndIn: a heading that is not found is scanned from the start
sectionEndInAnyway(doc, headings, h) == sectionEndFrom(doc, headings, 0, h)

\* lines 194-200: findIndex by startIndex
sectionEndIn(doc, headings, h) ==
    LET found == {i \in 1..Len(headings) : headings[i].startIndex = h.startIndex}
    IN  IF found = {} THEN getDocumentEndIndex(doc)
        ELSE sectionEndFrom(doc, headings, First(found), h)

findSectionEnd(doc, h) == sectionEndIn(doc, findHeadings(doc), h)

(***************************************************************************)
(* Reader: extractSectionContent (read_section)                            *)
(***************************************************************************)
\* lines 628-641: one pass over the headings, the first that equals or
\* contains the query; headings are 1-based here, 0 is the -1 of the source
targetHeadingIndex(headings, searchLower) ==
    LET hits == {i \in 1..Len(headings) :
                     \/ toLowerCase(headings[i].text) = searchLower
                     \/ includes(toLowerCase(headings[i].text), searchLower)}
    IN  IF hits = {} THEN 0 ELSE First(hits)

\* lines 647-660: the end of the section of headings[target]
sectionEndIndex(doc, headings, target, include) ==
    LET stops == {i \in (target + 1)..Len(headings) :
                      include => headings[i].level <= headings[target].level}
    IN  IF stops = {} THEN getDocumentEndIndex(doc)
        ELSE headings[First(stops)].startIndex

\* lines 684-688
sectionPrefix(paragraph) ==
    CASE paragraph.namedStyleType = "HEADING_1" -> <<"[", "H", "1", "]", " ">>
      [] paragraph.namedStyleType = "HEADING_2" -> <<"[", "H", "2", "]", " ">>
      [] paragraph.namedStyleType = "HEADING_3" -> <<"[", "H", "3", "]", " ">>
      [] OTHER -> IF paragraph.bullet THEN <<BULLET, " ">> ELSE <<>>

\* lines 706-708: a paragraph without visible text adds nothing
sectionLine(prefix, text) ==
    IF trim(text) # <<>> THEN prefix \o stripFinalNewline(text) \o <<NL>> ELSE <<>>

\* lines 671-710: the paragraphs that overlap [startIndex, endIndex)
RECURSIVE sectionText(_, _, _, _)
sectionText(elements, k, startIndex, endIndex) ==
    IF k > Len(elements) THEN <<>>
    ELSE IF elements[k].endIndex <= startIndex
    THEN sectionText(elements, k + 1, startIndex, endIndex)
    ELSE IF elements[k].startIndex >= endIndex THEN <<>>
    ELSE (IF isParagraph(elements[k])
          THEN sectionLine(sectionPrefix(elements[k].paragraph),
                           paragraphText(elements[k].paragraph.elements, 1))
          ELSE <<>>)
         \o sectionText(elements, k + 1, startIndex, endIndex)

\* lines 712-720, maxCharacters undefined
sectionResult(text) ==
    [content |-> trim(text), found |-> TRUE, totalCharacters |-> Len(text)]

\* lines 639-645, 662-720
sectionOf(doc, headings, target, include) ==
    IF target = 0 THEN [content |-> <<>>, found |-> FALSE, totalCharacters |-> 0]
    ELSE sectionResult(sectionText(doc.body.content, 1, headings[target].startIndex,
                                   sectionEndIndex(doc, headings, target, include)))

\* lines 625-626
targetOf(doc, headingText) ==
    targetHeadingIndex(findHeadings(doc), trim(toLowerCase(headingText)))

extractSectionContent(doc, headingText, include) ==
    sectionOf(doc, findHeadings(doc), targetOf(doc, headingText), include)

(***************************************************************************)
(* Tool operations of google-docs.ts: fetch the snapshot, compute the      *)
(* batch, hand it to documents.batchUpdate                                 *)
(***************************************************************************)
\* mutant of headingNotFound: the error quotes the normalised query
headingNotFoundNormalised(headingText) ==
    [heading |-> Null, sectionEnd |-> -1, requests |-> <<>>, applied |-> <<>>,
     result |-> <<"throw", "Heading not found", trim(toLowerCase(headingText))>>]

\* throw new Error(`Heading not found: "${headingText}"`): nothing is applied
headingNotFound(headingText) ==
    [heading |-> Null, sectionEnd |-> -1, requests |-> <<>>, applied |-> <<>>,
     result |-> <<"throw", "Heading not found", headingText>>]

\* the `requests.length === 0` return, else one batchUpdate call and the
\* message, which quotes heading.text when the operation found a heading
batch(h, end, rs, emptyMessage, message) ==
    [heading |-> h, sectionEnd |-> end, requests |-> rs,
     applied |-> IF rs = <<>> THEN <<>> ELSE <<rs>>,
     result |-> IF rs = <<>> THEN <<"return", emptyMessage>>
                ELSE IF h = Null THEN <<"return", message>>
                ELSE <<"return", message, h.text>>]

\* mutant of appendContentAt: no separating newline
appendContentAtNoSeparator(endIndex, c) == generateInsertRequests(c, endIndex)

\* lines 246-253
appendContentAt(endIndex, c) ==
    generateInsertRequests(IF endIndex > 1 THEN <<NL>> \o c ELSE c, endIndex)

appendContent(doc, c) ==
    batch(Null, -1, appendContentAt(getDocumentEndIndex(doc), c),
          "No content to append", "Successfully appended content to document")

\* lines 296-318
insertBeforeFound(h, c) ==
    batch(h, -1, generateInsertRequests(c \o <<NL>>, h.startIndex),
          "No content to insert", "Successfully inserted content before heading")

insertBeforeHeading(doc, headingText, c) ==
    IF findHeadingByText(doc, headingText) = Null THEN headingNotFound(headingText)
    ELSE insertBeforeFound(findHeadingByText(doc, headingText), c)

\* lines 346-368
insertAfterFound(h, c) ==
    batch(h, -1, generateInsertRequests(<<NL>> \o c, h.endIndex),
          "No content to insert", "Successfully inserted content after heading")

insertAfterHeading(doc, headingText, c) ==
    IF findHeadingByText(doc, headingText) = Null THEN headingNotFound(headingText)
    ELSE insertAfterFound(findHeadingByText(doc, headingText), c)

\* mutant of replaceSectionRequests: the insert is listed before the delete
replaceSectionInsertFirst(h, end, newContent) ==
    generateInsertRequests(<<NL>> \o newContent \o <<NL>>, h.endIndex)
    \o (IF h.endIndex < end
        THEN <<generateDeleteRequest(h.endIndex, end)>>
        ELSE <<>>)

\* lines 400-413
replaceSectionRequests(h, end, newContent) ==
    (IF h.endIndex < end
     THEN <<generateDeleteRequest(h.endIndex, end)>>
     ELSE <<>>)
    \o generateInsertRequests(<<NL>> \o newContent \o <<NL>>, h.endIndex)

\* lines 390-428
replaceSectionFound(h, end, newContent) ==
    batch(h, end, replaceSectionRequests(h, end, newContent),
          "No changes to make", "Successfully replaced section")

replaceSection(doc, headingText, newContent) ==
    IF findHeadingByText(doc, headingText) = Null THEN headingNotFound(headingText)
    ELSE replaceSectionFound(findHeadingByText(doc, headingText),
                             findSectionEnd(doc, findHeadingByText(doc, headingText)),
                             newContent)

\* lines 443-453
replaceDocumentRequests(endIndex, c) ==
    (IF endIndex > 1 THEN <<generateDeleteRequest(1, endIndex)>> ELSE <<>>)
    \o generateInsertRequests(c, 1)

replaceDocument(doc, c) ==
    batch(Null, -1, replaceDocumentRequests(getDocumentEndIndex(doc), c),
          "No content to write", "Successfully replaced document content")

\* lines 562-591
appendToSectionFound(h, end, c) ==
    batch(h, end, generateInsertRequests(<<NL>> \o c, end),
          "No content to append", "Successfully appended content to section")

appendToSection(doc, headingText, c) ==
    IF findHeadingByText(doc, headingText) = Null THEN headingNotFound(headingText)
    ELSE appendToSectionFound(findHeadingByText(doc, headingText),
                              findSectionEnd(doc, findHeadingByText(doc, headingText)),
                              c)

\* lines 707-726: the batch is sent without a length check
deleteSectionFound(h, end) ==
    [heading |-> h, sectionEnd |-> end,
     requests |-> <<generateDeleteRequest(h.startIndex, end)>>,
     applied |-> <<<<generateDeleteRequest(h.startIndex, end)>>>>,
     result |-> <<"return", "Successfully deleted section", h.text>>]

deleteSection(doc, headingText) ==
    IF findHeadingByText(doc, headingText) = Null THEN headingNotFound(headingText)
    ELSE deleteSectionFound(findHeadingByText(doc, headingText),
                            findSectionEnd(doc, findHeadingByText(doc, headingText)))

\* the outcome of an operation: its batch, if any, goes to batchUpdate, whose
\* rejection is thrown to the caller
delivered(doc, r, reply) ==
    IF reply.ok THEN [ok |-> TRUE, document |-> reply.document, result |-> r.result]
    ELSE [ok |-> FALSE, document |-> doc, result |-> <<"throw", "batchUpdate">>]

sent(doc, r) ==
    IF r.applied = <<>> THEN [ok |-> TRUE, document |-> doc, result |-> r.result]
    ELSE delivered(doc, r, batchUpdate(doc, r.applied[1]))

\* lines 476-513: no snapshot is fetched; the service replaces and counts
findAndReplace(doc, search, replaceText, matchCase) ==
    IF search = <<>> \/ bodyOf(doc).text = <<>>
    THEN [ok |-> FALSE, document |-> doc, result |-> <<"throw", "batchUpdate">>]
    ELSE [ok |-> TRUE,
          document |-> snapshotOf(replaceAllText(bodyOf(doc), search,
                                                 replaceText, matchCase)),
          result |-> <<"return", "Replaced",
                       occurrencesChanged(bodyOf(doc).text, 1, search, matchCase),
                       search, replaceText>>]

\* lines 614-654: the sub-operations that fetch a snapshot of their own
FetchingOperations ==
    {"append", "replace_section", "delete_section", "insert_after", "insert_before"}

\* lines 614-654: the switch of batchOperations over a fetched snapshot
subOperation(o, doc) ==
    CASE o.operation = "append" -> appendContent(doc, o.params.content)
      [] o.operation = "replace_section" ->
             replaceSection(doc, o.params.headingText, o.params.newContent)
      [] o.operation = "delete_section" -> deleteSection(doc, o.params.headingText)
      [] o.operation = "insert_after" ->
             insertAfterHeading(doc, o.params.headingText, o.params.content)
      [] o.operation = "insert_before" ->
             insertBeforeHeading(doc, o.params.headingText, o.params.content)

(***************************************************************************)
(* Bounds and input sets                                                   *)
(***************************************************************************)
\* marked text is built from at most MaxTokens tokens
MaxTokens == 3

LinkToken == <<"[", "a", "]", "(", "u", ")">>

Tokens ==
    {H1Marker, H2Marker, H3Marker, BulletMarker, StarMarker, LinkToken,
     <<"a">>, <<NL>>, <<"[">>, <<"]">>, <<"(">>, <<")">>}

RECURSIVE TokenStrings(_)
TokenStrings(n) ==
    IF n = 0 THEN {<<>>}
    ELSE LET shorter == TokenStrings(n - 1)
         IN  shorter \cup {s \o t : s \in shorter, t \in Tokens}

Contents == TokenStrings(MaxTokens)

Indices == {1, 10}

EmptyParsed == [plainText |-> <<>>, formattingRequests |-> <<>>]

\* a body without content (the `!content || content.length === 0` case)
NoDocument == [body |-> [content |-> <<>>]]

\* documents of the tool operations have at most MaxParagraphs paragraphs
MaxParagraphs == 3

Styles == {"NORMAL_TEXT", "HEADING_1", "HEADING_2", "HEADING_3"}

ParagraphKinds == [style : Styles, text : {<<>>, <<"P">>}]

DocumentsOf(kinds, n) ==
    {Document(paras) : paras \in UNION {[1..k -> kinds] : k \in 1..n}}

Documents == DocumentsOf(ParagraphKinds, MaxParagraphs) \cup {NoDocument}

\* heading queries and marked text of the tool operations
Queries == {<<"p">>, <<"x", " ">>, <<>>}

ToolContents ==
    {<<>>, <<"x">>, H1Marker \o <<"x">>,
     H2Marker \o <<"x", NL>> \o BulletMarker \o LinkToken}

\* headings held from an earlier snapshot: the paragraph "P" at some index
HeldHeadings ==
    {[text |-> <<"P">>, level |-> l, startIndex |-> k, endIndex |-> k + 2] :
        l \in {1, 2}, k \in {1, 2, 3}}

\* documents of the heading search have at most MaxFindParagraphs paragraphs
MaxFindParagraphs == 3

FindKinds ==
    [style : {"NORMAL_TEXT", "HEADING_1", "HEADING_2"},
     text : {<<"P">>, <<"p", "B">>, <<" ", "P">>, <<"b">>}]

FindDocuments == DocumentsOf(FindKinds, MaxFindParagraphs)

FindQueries == {<<"P">>, <<"p", " ">>, <<"b">>, <<"p", "b">>, <<"x">>, <<>>}

\* a batch has at most MaxOperations sub-operations
MaxOperations == 3

BatchOperationSet ==
    {[operation |-> "append", params |-> [content |-> <<"x">>]],
     [operation |-> "replace_section",
      params |-> [headingText |-> <<"p">>, newContent |-> <<"x">>]],
     [operation |-> "find_replace",
      params |-> [searchText |-> <<"p">>, replaceText |-> <<"x">>, matchCase |-> FALSE]],
     [operation |-> "delete_section", params |-> [headingText |-> <<"p">>]],
     [operation |-> "insert_after",
      params |-> [headingText |-> <<"p">>, content |-> H2Marker \o <<"p">>]],
     [operation |-> "insert_before",
      params |-> [headingText |-> <<"p">>, content |-> <<"x">>]],
     [operation |-> "move_section", params |-> [headingText |-> <<"p">>]]}

BatchDocuments ==
    {Document(<<[style |-> "NORMAL_TEXT", text |-> <<"P">>]>>),
     Document(<<[style |-> "HEADING_1", text |-> <<"P">>],
                [style |-> "NORMAL_TEXT", text |-> <<>>]>>),
     Document(<<[style |-> "HEADING_1", text |-> <<"P">>],
                [style |-> "NORMAL_TEXT", text |-> <<"a">>],
                [style |-> "HEADING_2", text |-> <<"P">>]>>)}

\* documents of the Reader have at most MaxBlocks paragraphs and tables
MaxBlocks == 2

PlainRun(text) == [content |-> text, link |-> <<>>]

LinkRun(text, url) == [content |-> text, link |-> url]

ReaderRuns ==
    {<<PlainRun(<<NL>>)>>,
     <<PlainRun(<<" ", NL>>)>>,
     <<PlainRun(<<"a", NL>>)>>,
     <<PlainRun(<<"a">>), LinkRun(<<"b", NL>>, <<"u">>)>>,
     <<LinkRun(<<"b">>, <<"u">>), PlainRun(<<NL>>)>>}

TableBlock == [table |-> TRUE, style |-> "NORMAL_TEXT", bullet |-> FALSE, runs |-> <<>>]

ReaderBlocks ==
    [table : {FALSE}, style : Styles, bullet : BOOLEAN, runs : ReaderRuns]
    \cup {TableBlock}

ReaderDocuments ==
    {BlockDocument(blocks) : blocks \in UNION {[1..n -> ReaderBlocks] : n \in 1..MaxBlocks}}

TextRuns ==
    {<<PlainRun(<<"a", "a", "a", NL>>)>>,
     <<PlainRun(<<"a">>), PlainRun(<<"a", NL>>)>>,
     <<PlainRun(<<"A", "a", NL>>)>>,
     <<PlainRun(<<"b", "a">>), LinkRun(<<"a", "b", "a", NL>>, <<"u">>)>>}

TextBlocks ==
    [table : {FALSE}, style : {"NORMAL_TEXT"}, bullet : {FALSE}, runs : TextRuns]
    \cup {TableBlock}

TextDocuments ==
    {BlockDocument(blocks) : blocks \in UNION {[1..n -> TextBlocks] : n \in 1..MaxBlocks}}

Needles == {<<"a", "a">>, <<"a">>, <<"A">>, <<"a", "b">>, <<"x">>}

\* no batch is running
NoBatch ==
    /\ operations = <<>>
    /\ stopOnError = TRUE
    /\ loopIndex = 0
    /\ results = <<>>
    /\ completedOperations = 0
    /\ events = <<>>
    /\ pc = "idle"

(***************************************************************************)
(* The Writer on its own: one call of a pure function per behaviour        *)
(***************************************************************************)
InitParser ==
    /\ op = "none"
    /\ NoBatch
    /\ content \in Contents
    /\ insertionIndex \in Indices
    /\ parsed = EmptyParsed
    /\ requests = <<>>
    /\ document = NoDocument
    /\ searchText = <<>>
    /\ heading = Null
    /\ sectionEnd = -1
    /\ applied = <<>>
    /\ result = <<>>
    /\ textLines = <<>>
    /\ caseSensitive = FALSE
    /\ NoServer
    /\ NoScan
    /\ remote = document

ParseContentForInsertion ==
    /\ op = "none"
    /\ op' = "parseContentForInsertion"
    /\ parsed' = parseContentForInsertion(content, insertionIndex)
    /\ UNCHANGED <<content, insertionIndex, requests, document, searchText,
                   heading, sectionEnd, applied, result>>
    /\ UNCHANGED <<remote, batchVars, textLines, caseSensitive, serverVars, scanVars>>

GenerateInsertRequests ==
    /\ op = "none"
    /\ op' = "generateInsertRequests"
    /\ parsed' = parseContentForInsertion(content, insertionIndex)
    /\ requests' = generateInsertRequests(content, insertionIndex)
    /\ UNCHANGED <<content, insertionIndex, document, searchText,
                   heading, sectionEnd, applied, result>>
    /\ UNCHANGED <<remote, batchVars, textLines, caseSensitive, serverVars, scanVars>>

NextParser == ParseContentForInsertion \/ GenerateInsertRequests

SpecParser == InitParser /\ [][NextParser]_vars

(***************************************************************************)
(* The heading search on its own                                           *)
(***************************************************************************)
InitFind ==
    /\ op = "none"
    /\ NoBatch
    /\ content = <<>>
    /\ insertionIndex = 0
    /\ parsed = EmptyParsed
    /\ requests = <<>>
    /\ document \in FindDocuments
    /\ searchText = <<>>
    /\ heading = Null
    /\ sectionEnd = -1
    /\ applied = <<>>
    /\ result = <<>>
    /\ textLines = <<>>
    /\ caseSensitive = FALSE
    /\ NoServer
    /\ NoScan
    /\ remote = document

FindHeadingByText ==
    /\ op = "none"
    /\ \E q \in FindQueries :
         /\ searchText' = q
         /\ heading' = findHeadingByText(document, q)
    /\ op' = "findHeadingByText"
    /\ UNCHANGED <<content, insertionIndex, parsed, requests, document,
                   sectionEnd, applied, result>>
    /\ UNCHANGED <<remote, batchVars, textLines, caseSensitive, serverVars, scanVars>>

\* one call of extractSectionContent; heading and sectionEnd are its locals
\* targetHeading and endIndex
ExtractSectionContent ==
    /\ op = "none"
    /\ \E q \in FindQueries, include \in BOOLEAN :
         /\ searchText' = q
         /\ includeSubsections' = include
         /\ \E target \in {targetOf(document, q)} :
              /\ heading' = IF target = 0 THEN Null ELSE findHeadings(document)[target]
              /\ sectionEnd' = IF target = 0 THEN -1
                               ELSE sectionEndIndex(document, findHeadings(document),
                                                    target, include)
         /\ result' = extractSectionContent(document, q, include)
    /\ op' = "extractSectionContent"
    /\ UNCHANGED <<content, insertionIndex, parsed, requests, document, applied>>
    /\ UNCHANGED <<remote, batchVars, textLines, caseSensitive, serverVars,
                   elem, searchStart, foundIndex>>

NextFind == FindHeadingByText \/ ExtractSectionContent

SpecFind == InitFind /\ [][NextFind]_vars

(***************************************************************************)
(* One tool call against the snapshot the service returns                  *)
(***************************************************************************)
Init ==
    /\ op = "none"
    /\ NoBatch
    /\ content = <<>>
    /\ insertionIndex = 0
    /\ parsed = EmptyParsed
    /\ requests = <<>>
    /\ document \in Documents
    /\ searchText = <<>>
    /\ heading = Null
    /\ sectionEnd = -1
    /\ applied = <<>>
    /\ result = <<>>
    /\ textLines = <<>>
    /\ caseSensitive = FALSE
    /\ NoServer
    /\ NoScan
    /\ remote = document

\* the call `name` with heading query q and marked text c ends as r
Call(name, q, c, r) ==
    /\ op' = name
    /\ searchText' = q
    /\ content' = c
    /\ heading' = r.heading
    /\ sectionEnd' = r.sectionEnd
    /\ requests' = r.requests
    /\ applied' = r.applied
    /\ \E u \in {sent(document, r)} :
         /\ result' = u.result
         /\ remote' = u.document
    /\ UNCHANGED <<insertionIndex, parsed, document, batchVars, textLines, caseSensitive, serverVars, scanVars>>

AppendContent ==
    /\ op = "none"
    /\ \E c \in ToolContents : \E r \in {appendContent(document, c)} :
               Call("appendContent", <<>>, c, r)

InsertBeforeHeading ==
    /\ op = "none"
    /\ \E q \in Queries, c \in ToolContents :
           \E r \in {insertBeforeHeading(document, q, c)} :
               Call("insertBeforeHeading", q, c, r)

InsertAfterHeading ==
    /\ op = "none"
    /\ \E q \in Queries, c \in ToolContents :
           \E r \in {insertAfterHeading(document, q, c)} :
               Call("insertAfterHeading", q, c, r)

ReplaceSection ==
    /\ op = "none"
    /\ \E q \in Queries, c \in ToolContents :
           \E r \in {replaceSection(document, q, c)} :
               Call("replaceSection", q, c, r)

ReplaceDocument ==
    /\ op = "none"
    /\ \E c \in ToolContents : \E r \in {replaceDocument(document, c)} :
               Call("replaceDocument", <<>>, c, r)

AppendToSection ==
    /\ op = "none"
    /\ \E q \in Queries, c \in ToolContents :
           \E r \in {appendToSection(document, q, c)} :
               Call("appendToSection", q, c, r)

DeleteSection ==
    /\ op = "none"
    /\ \E q \in Queries : \E r \in {deleteSection(document, q)} :
               Call("deleteSection", q, <<>>, r)

\* findSectionEnd for any heading of the snapshot
FindSectionEnd ==
    /\ op = "none"
    /\ \E k \in 1..Len(findHeadings(document)) :
         /\ heading' = findHeadings(document)[k]
         /\ sectionEnd' = findSectionEnd(document, findHeadings(document)[k])
    /\ op' = "findSectionEnd"
    /\ UNCHANGED <<content, insertionIndex, parsed, requests, document,
                   searchText, applied, result>>
    /\ UNCHANGED <<remote, batchVars, textLines, caseSensitive, serverVars, scanVars>>

\* findSectionEnd for a heading held from another snapshot
FindSectionEndOfHeld ==
    /\ op = "none"
    /\ \E h \in HeldHeadings :
         /\ heading' = h
         /\ sectionEnd' = findSectionEnd(document, h)
    /\ op' = "findSectionEndOfHeld"
    /\ UNCHANGED <<content, insertionIndex, parsed, requests, document,
                   searchText, applied, result>>
    /\ UNCHANGED <<remote, batchVars, textLines, caseSensitive, serverVars, scanVars>>

Next ==
    \/ AppendContent
    \/ InsertBeforeHeading
    \/ InsertAfterHeading
    \/ ReplaceSection
    \/ ReplaceDocument
    \/ AppendToSection
    \/ DeleteSection
    \/ FindSectionEnd
    \/ FindSectionEndOfHeld

Spec == Init /\ [][Next]_vars

(***************************************************************************)
(* One tool call step by step: fetch the snapshot, compute the batch, hand *)
(* it to documents.batchUpdate; other clients edit the document meanwhile  *)
(***************************************************************************)
ToolNames ==
    {"appendContent", "insertBeforeHeading", "insertAfterHeading", "replaceSection",
     "replaceDocument", "appendToSection", "deleteSection"}

\* the tools that take a heading query, and those that take marked text
QueryTools == ToolNames \ {"appendContent", "replaceDocument"}

ContentTools == ToolNames \ {"deleteSection"}

\* the body of the tool between its getDocument and its batchUpdate
toolPlan(name, doc, q, c) ==
    CASE name = "appendContent" -> appendContent(doc, c)
      [] name = "insertBeforeHeading" -> insertBeforeHeading(doc, q, c)
      [] name = "insertAfterHeading" -> insertAfterHeading(doc, q, c)
      [] name = "replaceSection" -> replaceSection(doc, q, c)
      [] name = "replaceDocument" -> replaceDocument(doc, c)
      [] name = "appendToSection" -> appendToSection(doc, q, c)
      [] name = "deleteSection" -> deleteSection(doc, q)

toolEvent(name, accepted, doc, rs) ==
    [call |-> name, ok |-> accepted, document |-> doc, requests |-> rs]

\* mutant of thrown: the call that failed is made again
thrownRetried(error, at, held) == [pc |-> at, result |-> held]

\* the awaited call rejects and no tool catches: the error is the outcome
thrown(error, at, held) == [pc |-> "done", result |-> <<"throw", error>>]

InitTool ==
    /\ op \in ToolNames
    /\ searchText \in (IF op \in QueryTools THEN Queries ELSE {<<>>})
    /\ content \in (IF op \in ContentTools THEN ToolContents ELSE {<<>>})
    /\ remote \in BatchDocuments
    /\ document = NoDocument
    /\ operations = <<>>
    /\ stopOnError = TRUE
    /\ loopIndex = 0
    /\ results = <<>>
    /\ completedOperations = 0
    /\ events = <<>>
    /\ pc = "fetch"
    /\ insertionIndex = 0
    /\ parsed = EmptyParsed
    /\ requests = <<>>
    /\ heading = Null
    /\ sectionEnd = -1
    /\ applied = <<>>
    /\ result = <<>>
    /\ textLines = <<>>
    /\ caseSensitive = FALSE
    /\ NoServer
    /\ NoScan

toolFrame ==
    UNCHANGED <<op, content, searchText, insertionIndex, parsed, operations, stopOnError,
                loopIndex, results, completedOperations, textLines, caseSensitive, serverVars, scanVars>>

\* `await getDocument(documentId)` returns the snapshot; the batch is computed
ToolFetch ==
    /\ pc = "fetch"
    /\ events' = Append(events, toolEvent("get", TRUE, remote, <<>>))
    /\ document' = remote
    /\ \E r \in {toolPlan(op, remote, searchText, content)} :
         /\ heading' = r.heading
         /\ sectionEnd' = r.sectionEnd
         /\ requests' = r.requests
         /\ applied' = r.applied
         /\ result' = r.result
    /\ pc' = "fetched"
    /\ UNCHANGED remote
    /\ toolFrame

\* `await getDocument(documentId)` rejects
ToolFetchFails ==
    /\ pc = "fetch"
    /\ events' = Append(events, toolEvent("get", FALSE, NoDocument, <<>>))
    /\ \E t \in {thrown("documents.get", "fetch", result)} :
         /\ pc' = t.pc
         /\ result' = t.result
    /\ UNCHANGED <<document, remote, heading, sectionEnd, requests, applied>>
    /\ toolFrame

\* the tool throws or returns before any batchUpdate
ToolReturn ==
    /\ pc = "fetched"
    /\ applied = <<>>
    /\ pc' = "done"
    /\ UNCHANGED <<document, remote, heading, sectionEnd, requests, applied, result,
                   events>>
    /\ toolFrame

\* `await docs.documents.batchUpdate(...)` is accepted by the service
ToolApply ==
    /\ pc = "fetched"
    /\ applied # <<>>
    /\ \E u \in {batchUpdate(remote, applied[1])} :
         /\ u.ok
         /\ remote' = u.document
    /\ events' = Append(events, toolEvent("batchUpdate", TRUE, document, applied[1]))
    /\ pc' = "done"
    /\ UNCHANGED <<document, heading, sectionEnd, requests, applied, result>>
    /\ toolFrame

\* `await docs.documents.batchUpdate(...)` rejects: the service refuses the
\* batch, or the call fails
ToolApplyFails ==
    /\ pc = "fetched"
    /\ applied # <<>>
    /\ events' = Append(events, toolEvent("batchUpdate", FALSE, document, applied[1]))
    /\ \E t \in {thrown("batchUpdate", "fetched", result)} :
         /\ pc' = t.pc
         /\ result' = t.result
    /\ UNCHANGED <<document, remote, heading, sectionEnd, requests, applied>>
    /\ toolFrame

\* another client changes the document between the fetch and the apply
OtherClientEdits ==
    /\ pc = "fetched"
    /\ remote = document
    /\ remote' \in BatchDocuments \ {remote}
    /\ UNCHANGED <<document, heading, sectionEnd, requests, applied, result, events, pc>>
    /\ toolFrame

NextTool ==
    \/ ToolFetch
    \/ ToolFetchFails
    \/ ToolReturn
    \/ ToolApply
    \/ ToolApplyFails
    \/ OtherClientEdits

SpecTool == InitTool /\ [][NextTool]_vars

(***************************************************************************)
(* The MCP server (mcp-server.ts) and the Lambda handler (index.ts); a      *)
(* string argument that is absent and one that is "" are both <<>>, as the  *)
(* code tests them with `!`                                                 *)
(***************************************************************************)
\* "docs.google.com/document/d/", "https://" and "/edit" as one character each
UrlPath == "docs.google.com/document/d/"

IsIdChar(c) == c \in {"A", "B"}

\* the group ([a-zA-Z0-9_-]+) from position k on
RECURSIVE idGroup(_, _)
idGroup(s, k) ==
    IF k > Len(s) \/ ~IsIdChar(s[k]) THEN <<>>
    ELSE <<s[k]>> \o idGroup(s, k + 1)

\* the positions where /docs\.google\.com\/document\/d\/([a-zA-Z0-9_-]+)/ matches
urlMatches(s) ==
    {k \in 1..Len(s) : s[k] = UrlPath /\ k < Len(s) /\ IsIdChar(s[k + 1])}

extracted(trimmed) ==
    IF urlMatches(trimmed) # {}
    THEN idGroup(trimmed, First(urlMatches(trimmed)) + 1)
    ELSE trimmed

extractDocumentId(input) == extracted(trim(input))

\* mutant of getEffectiveDocumentId: the current document is not consulted
getEffectiveDocumentIdFromArgs(args, current) ==
    IF args.documentId # <<>> THEN extractDocumentId(args.documentId) ELSE <<>>

\* <<>> stands for null as well: both are tested with `!documentId`
getEffectiveDocumentId(args, current) ==
    IF args.documentId # <<>> THEN extractDocumentId(args.documentId)
    ELSE current.id

\* the outcome of executeTool: what it returns or throws, the module variable
\* afterwards, and the collaborator functions it called
outcome(kind, message, current, contacted) ==
    [result |-> <<kind, message>>, currentDocument |-> current, calls |-> contacted]

contact(name, documentId) == [call |-> name, documentId |-> documentId]

\* the title the document service holds for a document
titleOf(documentId) == <<"T">> \o documentId

\* case "set_document", after the url check
setDocument(documentId, current, reply) ==
    IF reply = "fail"
    THEN outcome("throw", "getDocumentTitle", current,
                 <<contact("getDocumentTitle", documentId)>>)
    ELSE outcome("return", "Document set",
                 [id |-> documentId, name |-> titleOf(documentId)],
                 <<contact("getDocumentTitle", documentId)>>)

\* case "resolve_url", after the url check
resolveUrl(documentId, current, reply) ==
    IF reply = "fail"
    THEN outcome("throw", "Could not retrieve file metadata", current,
                 <<contact("getFileMetadata", documentId)>>)
    ELSE outcome("return", "Document found", current,
                 <<contact("getFileMetadata", documentId)>>)

\* the google-docs function a document tool calls, and the argument it needs
DocumentTools ==
    [read_document |-> [call |-> "readDocument", required |-> "none"],
     append_content |-> [call |-> "appendContent", required |-> "content"],
     delete_section |-> [call |-> "deleteSection", required |-> "headingText"]]

\* the cases that start with getEffectiveDocumentId
documentTool(tool, documentId, args, current, reply) ==
    IF documentId = <<>>
    THEN outcome("throw", "documentId is required (provide it or use set_document first)",
                 current, <<>>)
    ELSE IF tool.required # "none" /\ args[tool.required] = <<>>
    THEN outcome("throw", "argument is required", current, <<>>)
    ELSE outcome(IF reply = "fail" THEN "throw" ELSE "return", tool.call, current,
                 <<contact(tool.call, documentId)>>)

executeTool(name, args, current, reply) ==
    CASE name = "set_document" ->
             IF args.url = <<>> THEN outcome("throw", "url is required", current, <<>>)
             ELSE setDocument(extractDocumentId(args.url), current, reply)
      [] name = "resolve_url" ->
             IF args.url = <<>> THEN outcome("throw", "url is required", current, <<>>)
             ELSE resolveUrl(extractDocumentId(args.url), current, reply)
      [] name = "get_current_document" ->
             outcome("return", IF current = NoCurrentDocument
                               THEN "No document currently set. Use set_document first."
                               ELSE "Current document", current, <<>>)
      [] name \in DOMAIN DocumentTools ->
             documentTool(DocumentTools[name], getEffectiveDocumentId(args, current),
                          args, current, reply)
      [] OTHER -> outcome("throw", "Unknown tool", current, <<>>)

\* the MCPResponse for what executeTool did: a throw is caught and becomes
\* the error -32603
toolResponse(o) ==
    [body |-> IF o.result[1] = "throw"
              THEN [kind |-> "error", code |-> -32603, message |-> o.result[2]]
              ELSE [kind |-> "result", code |-> 0, message |-> o.result[2]],
     currentDocument |-> o.currentDocument,
     calls |-> o.calls]

handleMCPRequest(request, current, reply) ==
    CASE request.method \in {"initialize", "initialized", "tools/list", "ping"} ->
             toolResponse(outcome("return", request.method, current, <<>>))
      [] request.method = "tools/call" ->
             IF request.name = ""
             THEN toolResponse(outcome("throw", "Tool name is required", current, <<>>))
             ELSE toolResponse(executeTool(request.name, request.arguments, current, reply))
      [] OTHER ->
             [body |-> [kind |-> "error", code |-> -32601, message |-> "Method not found"],
              currentDocument |-> current, calls |-> <<>>]

\* the token of the path is the secret token the deployment stores
SecretToken == <<"s">>

validateSecretToken(token) == token # <<>> /\ token = SecretToken

\* what the handler returns, the module variable afterwards, and the functions
\* called on the way, the handler's own before those of handleMCPRequest
responded(statusCode, body, current, called) ==
    [response |-> [statusCode |-> statusCode, body |-> body],
     currentDocument |-> current, calls |-> called]

errorBody(code, message) == [kind |-> "error", code |-> code, message |-> message]

local(name) == contact(name, <<>>)

\* index.ts:129-160: handleMCPRequest catches what its tools throw
handled(r, called) ==
    responded(200, r.body, r.currentDocument,
              called \o <<local("handleMCPRequest")>> \o r.calls)

\* index.ts:72-127: the body is parsed, then its JSON-RPC format is checked
parsedBody(e, current, reply, called) ==
    IF e.body.kind # "json"
    THEN responded(400, errorBody(-32700, "Parse error: Invalid JSON"), current,
                   called \o <<local("JSON.parse")>>)
    ELSE IF e.body.value.jsonrpc # "2.0" \/ e.body.value.method = ""
    THEN responded(400, errorBody(-32600, "Invalid Request"), current,
                   called \o <<local("JSON.parse")>>)
    ELSE handled(handleMCPRequest(e.body.value, current, reply),
                 called \o <<local("JSON.parse")>>)

\* mutant of validated: the body is parsed and handled whatever the token is
validatedLate(e, current, reply) ==
    parsedBody(e, current, reply, <<local("validateSecretToken")>>)

\* index.ts:49-69
validated(e, current, reply) ==
    IF ~validateSecretToken(e.token)
    THEN responded(403, errorBody(-32600, "Forbidden: Invalid or missing token"),
                   current, <<local("validateSecretToken")>>)
    ELSE parsedBody(e, current, reply, <<local("validateSecretToken")>>)

handler(e, current, reply) ==
    IF e.httpMethod = "OPTIONS"
    THEN responded(200, [kind |-> "none"], current, <<>>)
    ELSE IF e.httpMethod # "POST"
    THEN responded(405, errorBody(-32600, "Method not allowed. Use POST."), current, <<>>)
    ELSE validated(e, current, reply)

\* urls and document ids of the requests
Urls ==
    {<<>>, <<"A">>, <<" ", "A">>, <<"https://", UrlPath, "B", "/edit">>, <<" ">>,
     <<UrlPath>>}

ToolArguments ==
    [url : Urls, documentId : {<<>>, <<"A">>, <<UrlPath, "B">>},
     content : {<<>>, <<"x">>}, headingText : {<<"p">>}]

ServerTools ==
    {"set_document", "resolve_url", "get_current_document", "read_document",
     "append_content", "delete_section", "export_pdf", ""}

\* the arguments a tool reads; the others are left out of the request
ArgumentsOf(name) ==
    {a \in ToolArguments :
        /\ name \in {"set_document", "resolve_url"} \/ a.url = <<>>
        /\ name \in DOMAIN DocumentTools \/ a.documentId = <<>>
        /\ name = "append_content" \/ a.content = <<>>}

JsonRpcRequests ==
    {[jsonrpc |-> "2.0", method |-> "tools/call", name |-> n, arguments |-> a] :
        n \in ServerTools, a \in ToolArguments}
    \cup {[jsonrpc |-> v, method |-> m, name |-> "", arguments |-> <<>>] :
            v \in {"2.0", "1.0"}, m \in {"ping", "tools/list", "resources/list", ""}}

ToolCallRequests ==
    {r \in JsonRpcRequests : r.method = "tools/call" => r.arguments \in ArgumentsOf(r.name)}

Bodies ==
    {[kind |-> "empty"], [kind |-> "invalid"]}
    \cup {[kind |-> "json", value |-> r] : r \in ToolCallRequests}

HttpEvents == [httpMethod : {"OPTIONS", "GET", "POST"}, token : {<<>>, <<"s">>, <<"w">>},
               body : Bodies]

\* the document service knows no document of the empty id
Replies(e) ==
    IF /\ e.body.kind = "json"
       /\ e.body.value.method = "tools/call"
       /\ e.body.value.name = "set_document"
       /\ extractDocumentId(e.body.value.arguments.url) = <<>>
    THEN {"fail"}
    ELSE {"ok", "fail"}

InitServer ==
    /\ op = "none"
    /\ NoBatch
    /\ content = <<>>
    /\ insertionIndex = 0
    /\ parsed = EmptyParsed
    /\ requests = <<>>
    /\ document = NoDocument
    /\ searchText = <<>>
    /\ heading = Null
    /\ sectionEnd = -1
    /\ applied = <<>>
    /\ result = <<>>
    /\ textLines = <<>>
    /\ caseSensitive = FALSE
    /\ NoServer
    /\ NoScan
    /\ remote = NoDocument

\* the Lambda container handles one API Gateway event
Handler ==
    /\ \E e \in HttpEvents : \E reply \in Replies(e) :
         \E h \in {handler(e, currentDocument, reply)} :
             /\ event' = e
             /\ response' = h.response
             /\ currentDocument' = h.currentDocument
             /\ calls' = h.calls
    /\ UNCHANGED <<op, content, insertionIndex, parsed, requests, document, searchText,
                   heading, sectionEnd, applied, result, remote, batchVars, textLines,
                   caseSensitive, scanVars>>

NextServer == Handler

SpecServer == InitServer /\ [][NextServer]_vars

(***************************************************************************)
(* The Reader on its own                                                   *)
(***************************************************************************)
InitReader ==
    /\ op = "none"
    /\ NoBatch
    /\ content = <<>>
    /\ insertionIndex = 1
    /\ parsed = EmptyParsed
    /\ requests = <<>>
    /\ document \in ReaderDocuments
    /\ searchText = <<>>
    /\ heading = Null
    /\ sectionEnd = -1
    /\ applied = <<>>
    /\ result = <<>>
    /\ textLines = <<>>
    /\ caseSensitive = FALSE
    /\ NoServer
    /\ NoScan
    /\ remote = document

DocumentToText ==
    /\ op = "none"
    /\ op' = "documentToText"
    /\ textLines' = documentLines(document.body.content, 1)
    /\ result' = documentToText(document)
    /\ UNCHANGED <<content, insertionIndex, parsed, requests, document, searchText,
                   heading, sectionEnd, applied, remote, batchVars, caseSensitive, serverVars, scanVars>>

\* the marked text of the Reader handed back to the Writer
RoundTrip ==
    /\ op = "none"
    /\ op' = "roundTrip"
    /\ textLines' = documentLines(document.body.content, 1)
    /\ result' = documentToText(document)
    /\ content' = documentToText(document)
    /\ parsed' = parseContentForInsertion(documentToText(document), insertionIndex)
    /\ UNCHANGED <<insertionIndex, requests, document, searchText,
                   heading, sectionEnd, applied, remote, batchVars, caseSensitive, serverVars, scanVars>>

NextReader == DocumentToText \/ RoundTrip

SpecReader == InitReader /\ [][NextReader]_vars

(***************************************************************************)
(* The text search on its own                                              *)
(***************************************************************************)
InitFindText ==
    /\ op = "none"
    /\ NoBatch
    /\ content = <<>>
    /\ insertionIndex = 0
    /\ parsed = EmptyParsed
    /\ requests = <<>>
    /\ document \in TextDocuments
    /\ searchText = <<>>
    /\ heading = Null
    /\ sectionEnd = -1
    /\ applied = <<>>
    /\ result = <<>>
    /\ textLines = <<>>
    /\ caseSensitive = FALSE
    /\ NoServer
    /\ NoScan
    /\ remote = document

FindTextInDocument ==
    /\ op = "none"
    /\ op' = "findTextInDocument"
    /\ \E needle \in Needles, sensitive \in BOOLEAN :
         /\ searchText' = needle
         /\ caseSensitive' = sensitive
         /\ result' = findTextInDocument(document, needle, sensitive)
    /\ UNCHANGED <<content, insertionIndex, parsed, requests, document,
                   heading, sectionEnd, applied, remote, batchVars, textLines,
                   serverVars, scanVars>>

NextFindText == FindTextInDocument

SpecFindText == InitFindText /\ [][NextFindText]_vars

(***************************************************************************)
(* findTextInDocument step by step: the for loops over the text runs and   *)
(* the while loop over the occurrences in one run.  result is the array    *)
(* matches, op the position in the function.                               *)
(***************************************************************************)
\* the array matches holds at most MaxMatches entries
MaxMatches == 12

ScanNeedles == Needles \cup {<<>>}

\* line 256: a text run with content
hasContent(run) == run.content # <<>>

\* lines 252-256: the text runs the for loops visit, in order
RECURSIVE textRunsFrom(_, _)
textRunsFrom(elements, k) ==
    IF k > Len(elements) THEN <<>>
    ELSE (IF isParagraph(elements[k])
          THEN SelectSeq(elements[k].paragraph.elements, hasContent)
          ELSE <<>>)
         \o textRunsFrom(elements, k + 1)

textRuns(doc) == textRunsFrom(doc.body.content, 1)

\* lines 258, 263, 272: textToSearch.indexOf(searchLower, searchStart)
indexIn(run, needle, sensitive, start) ==
    indexOf(folded(run.content, sensitive), folded(needle, sensitive), start)

InitScan ==
    /\ op = "for"
    /\ NoBatch
    /\ content = <<>>
    /\ insertionIndex = 0
    /\ parsed = EmptyParsed
    /\ requests = <<>>
    /\ document \in TextDocuments
    /\ searchText \in ScanNeedles
    /\ heading = Null
    /\ sectionEnd = -1
    /\ applied = <<>>
    /\ result = <<>>
    /\ textLines = <<>>
    /\ caseSensitive \in BOOLEAN
    /\ NoServer
    /\ NoScan
    /\ remote = document

scanFrame ==
    UNCHANGED <<content, insertionIndex, parsed, requests, document, searchText,
                heading, sectionEnd, applied, remote, batchVars, textLines,
                caseSensitive, serverVars, includeSubsections>>

\* lines 252-263: the next text run; searchStart = 0 and the first indexOf
ScanRun ==
    /\ op = "for"
    /\ elem < Len(textRuns(document))
    /\ elem' = elem + 1
    /\ searchStart' = 0
    /\ foundIndex' = indexIn(textRuns(document)[elem + 1], searchText, caseSensitive, 0)
    /\ op' = "while"
    /\ UNCHANGED result
    /\ scanFrame

\* lines 265-273: one iteration of the while loop
ScanMatch ==
    /\ op = "while"
    /\ foundIndex # -1
    /\ Len(result) < MaxMatches
    /\ result' = Append(result, textMatch(textRuns(document)[elem], foundIndex,
                                          Len(searchText)))
    /\ searchStart' = nextSearchStart(foundIndex, Len(searchText))
    /\ foundIndex' = indexIn(textRuns(document)[elem], searchText, caseSensitive,
                             nextSearchStart(foundIndex, Len(searchText)))
    /\ UNCHANGED <<op, elem>>
    /\ scanFrame

\* line 265: foundIndex is -1, the while loop ends
ScanRunDone ==
    /\ op = "while"
    /\ foundIndex = -1
    /\ op' = "for"
    /\ UNCHANGED <<result, elem, searchStart, foundIndex>>
    /\ scanFrame

\* line 279: return matches
ScanReturn ==
    /\ op = "for"
    /\ elem = Len(textRuns(document))
    /\ op' = "findTextInDocument"
    /\ UNCHANGED <<result, elem, searchStart, foundIndex>>
    /\ scanFrame

NextScan == ScanRun \/ ScanMatch \/ ScanRunDone \/ ScanReturn

SpecScan == InitScan /\ [][NextScan]_vars

\* the function runs on one thread without waiting: its next step is taken
SpecScanLive == SpecScan /\ WF_vars(NextScan)

(***************************************************************************)
(* batchOperations, one step per call to the service                       *)
(***************************************************************************)
InitBatch ==
    /\ op = "batchOperations"
    /\ content = <<>>
    /\ insertionIndex = 0
    /\ parsed = EmptyParsed
    /\ requests = <<>>
    /\ document = NoDocument
    /\ searchText = <<>>
    /\ heading = Null
    /\ sectionEnd = -1
    /\ applied = <<>>
    /\ result = <<>>
    /\ textLines = <<>>
    /\ caseSensitive = FALSE
    /\ NoServer
    /\ NoScan
    /\ remote \in BatchDocuments
    /\ operations \in UNION {[1..n -> BatchOperationSet] : n \in 0..MaxOperations}
    /\ stopOnError \in BOOLEAN
    /\ loopIndex = 0
    /\ results = <<>>
    /\ completedOperations = 0
    /\ events = <<>>
    /\ pc = "loop"

\* lines 660-661
Succeed(message) ==
    /\ results' = Append(results, [index |-> loopIndex, success |-> TRUE,
                                   message |-> message])
    /\ completedOperations' = completedOperations + 1
    /\ loopIndex' = loopIndex + 1
    /\ pc' = "loop"

\* mutant of Fail: the loop stops whatever the policy
FailAndStop(message) ==
    /\ results' = Append(results, [index |-> loopIndex, success |-> FALSE,
                                   message |-> message])
    /\ completedOperations' = completedOperations
    /\ loopIndex' = loopIndex
    /\ pc' = "break"

\* mutant of Fail: the loop goes on whatever the policy
FailAndContinue(message) ==
    /\ results' = Append(results, [index |-> loopIndex, success |-> FALSE,
                                   message |-> message])
    /\ completedOperations' = completedOperations
    /\ loopIndex' = loopIndex + 1
    /\ pc' = "loop"

\* lines 662-673
Fail(message) ==
    /\ results' = Append(results, [index |-> loopIndex, success |-> FALSE,
                                   message |-> message])
    /\ completedOperations' = completedOperations
    /\ IF stopOnError
       THEN loopIndex' = loopIndex /\ pc' = "break"
       ELSE loopIndex' = loopIndex + 1 /\ pc' = "loop"

\* mutant of fetched: the first snapshot is kept for the whole batch
fetchedOnce(held, snapshot) == IF loopIndex = 0 THEN snapshot ELSE held

\* getDocument (google-docs.ts:78-84): the sub-operation's own snapshot
fetched(held, snapshot) == snapshot

\* the sub-operation calls getDocument, which throws or returns the snapshot
\* the sub-operation computes its batch from
BatchFetch ==
    /\ pc = "loop"
    /\ loopIndex < Len(operations)
    /\ operations[loopIndex + 1].operation \in FetchingOperations
    /\ events' = Append(events, [call |-> "get", index |-> loopIndex,
                                 document |-> remote])
    /\ \/ /\ document' = fetched(document, remote)
          /\ \E r \in {subOperation(operations[loopIndex + 1],
                                    fetched(document, remote))} :
               /\ heading' = r.heading
               /\ sectionEnd' = r.sectionEnd
               /\ requests' = r.requests
               /\ applied' = r.applied
               /\ result' = r.result
          /\ pc' = "fetched"
          /\ UNCHANGED <<loopIndex, results, completedOperations>>
       \/ /\ Fail(<<"throw", "documents.get">>)
          /\ UNCHANGED <<document, heading, sectionEnd, requests, applied, result>>
    /\ UNCHANGED <<serverVars, scanVars, textLines, caseSensitive, op, content, insertionIndex, parsed,
                   searchText, remote, operations, stopOnError>>

\* the sub-operation has thrown before any batch, or has nothing to send
BatchCompute ==
    /\ pc = "fetched"
    /\ applied = <<>>
    /\ IF result[1] = "throw" THEN Fail(result) ELSE Succeed(result)
    /\ UNCHANGED <<serverVars, scanVars, textLines, caseSensitive, op, content, insertionIndex, parsed,
                   requests, document, searchText, heading, sectionEnd, applied,
                   result, remote, operations, stopOnError, events>>

\* the sub-operation hands its batch to batchUpdate, which applies it or throws
BatchApply ==
    /\ pc = "fetched"
    /\ applied # <<>>
    /\ events' = Append(events, [call |-> "batchUpdate", index |-> loopIndex,
                                 document |-> document])
    /\ \/ \E u \in {batchUpdate(remote, applied[1])} :
               /\ u.ok
               /\ remote' = u.document
               /\ Succeed(result)
       \/ /\ Fail(<<"throw", "batchUpdate">>)
          /\ UNCHANGED remote
    /\ UNCHANGED <<serverVars, scanVars, textLines, caseSensitive, op, content, insertionIndex, parsed,
                   requests, document, searchText, heading, sectionEnd, applied,
                   result, operations, stopOnError>>

\* find_replace: one batchUpdate call and no snapshot
BatchFindReplace ==
    /\ pc = "loop"
    /\ loopIndex < Len(operations)
    /\ operations[loopIndex + 1].operation = "find_replace"
    /\ events' = Append(events, [call |-> "batchUpdate", index |-> loopIndex,
                                 document |-> NoDocument])
    /\ \/ \E u \in {findAndReplace(remote, operations[loopIndex + 1].params.searchText,
                                   operations[loopIndex + 1].params.replaceText,
                                   operations[loopIndex + 1].params.matchCase)} :
               /\ u.ok
               /\ remote' = u.document
               /\ Succeed(u.result)
       \/ /\ Fail(<<"throw", "batchUpdate">>)
          /\ UNCHANGED remote
    /\ UNCHANGED <<serverVars, scanVars, textLines, caseSensitive, op, content, insertionIndex, parsed,
                   requests, document, searchText, heading, sectionEnd, applied,
                   result, operations, stopOnError>>

\* lines 656-657: the default case of the switch
BatchUnknown ==
    /\ pc = "loop"
    /\ loopIndex < Len(operations)
    /\ operations[loopIndex + 1].operation \notin FetchingOperations \cup {"find_replace"}
    /\ Fail(<<"throw", "Unknown operation", operations[loopIndex + 1].operation>>)
    /\ UNCHANGED <<serverVars, scanVars, textLines, caseSensitive, op, content, insertionIndex, parsed, requests, document,
                   searchText, heading, sectionEnd, applied, result, remote,
                   operations, stopOnError, events>>

\* lines 676-686
BatchReturn ==
    /\ pc = "break" \/ (pc = "loop" /\ loopIndex >= Len(operations))
    /\ pc' = "done"
    /\ result' = [success |-> completedOperations = Len(operations),
                  completedOperations |-> completedOperations,
                  totalOperations |-> Len(operations),
                  results |-> results]
    /\ UNCHANGED <<serverVars, scanVars, textLines, caseSensitive, op, content, insertionIndex, parsed, requests, document,
                   searchText, heading, sectionEnd, applied, remote, operations,
                   stopOnError, loopIndex, results, completedOperations, events>>

NextBatch ==
    \/ BatchFetch
    \/ BatchCompute
    \/ BatchApply
    \/ BatchFindReplace
    \/ BatchUnknown
    \/ BatchReturn

SpecBatch == InitBatch /\ [][NextBatch]_vars

(***************************************************************************)
(* Vocabulary of the properties                                            *)
(***************************************************************************)
IsInsert(r) == r.kind = "insertText"

IsDelete(r) == r.kind = "deleteContentRange"

IsNormalReset(r) == r.kind = "updateParagraphStyle" /\ r.namedStyleType = "NORMAL_TEXT"

\* the operations that come from markers of the marked text
IsMarkerOp(r) ==
    \/ r.kind = "updateParagraphStyle" /\ r.namedStyleType # "NORMAL_TEXT"
    \/ r.kind = "createParagraphBullets"
    \/ r.kind = "updateTextStyle" /\ r.fields = "link"

Positions(rs, P(_)) == {k \in 1..Len(rs) : P(rs[k])}

\* length of the line of plain that starts at 0-based offset a
PlainLineLen(plain, a) ==
    LET p == indexOfChar(plain, NL, a)
    IN  IF p = -1 THEN Len(plain) - a ELSE p - a

RECURSIVE JoinLines(_)
JoinLines(lines) ==
    IF Len(lines) = 1 THEN lines[1]
    ELSE lines[1] \o <<NL>> \o JoinLines(Tail(lines))

\* the marked text without the line markers
WithoutMarkers(c) ==
    LET lines == split(c)
    IN  JoinLines([k \in 1..Len(lines) |-> stripMarker(lines[k]).line])

IsLink(f) == f.type = "link"

IsHeading(f) == f.type = "heading"

LinksOf(p) == SelectSeq(p.formattingRequests, IsLink)

\* plain with the markup [label](url) put back on the first k link ranges
RECURSIVE Remarked(_, _, _, _)
Remarked(plain, index, links, k) ==
    IF k = 0 THEN plain
    ELSE LET a == links[k].startIndex - index
             b == links[k].endIndex - index
         IN  Remarked(SubSeq(plain, 1, a) \o <<"[">> \o SubSeq(plain, a + 1, b)
                        \o <<"]", "(">> \o links[k].url \o <<")">>
                        \o SubSeq(plain, b + 1, Len(plain)),
                      index, links, k - 1)

\* number of leftmost, non-overlapping [label](url) occurrences of a line
RECURSIVE Occurrences(_, _)
Occurrences(line, from) ==
    LET m == linkRegexExec(line, from)
    IN  IF m = NoMatch THEN 0 ELSE 1 + Occurrences(line, m.index + m.length)

RECURSIVE SumOccurrences(_, _)
SumOccurrences(lines, k) ==
    IF k > Len(lines) THEN 0
    ELSE Occurrences(lines[k], 0) + SumOccurrences(lines, k + 1)

(***************************************************************************)
(* Properties of the Writer (specification SpecParser)                     *)
(***************************************************************************)

\* C2: the NORMAL_TEXT reset of generateInsertRequests starts at the insertion
\* index and ends at index + len(plainText), or one earlier when plainText ends
\* with a newline: it never covers the final trailing newline. It is emitted
\* whenever that range is not empty.
C2_ResetExcludesTrailingNewline ==
    op = "generateInsertRequests" =>
        LET ins == Positions(requests, IsInsert)
            resets == Positions(requests, IsNormalReset)
        IN  /\ ins = {} => resets = {}
            /\ \A k \in ins :
                 LET text == requests[k].text
                     i == requests[k].index
                     expectedEnd == IF text[Len(text)] = NL
                                    THEN i + Len(text) - 1
                                    ELSE i + Len(text)
                 IN  /\ i = insertionIndex
                     /\ \A j \in resets : /\ requests[j].startIndex = i
                                          /\ requests[j].endIndex = expectedEnd
                     /\ expectedEnd > i => Cardinality(resets) = 1

\* C2 witness: text ending in a newline was inserted and the reset stops before it
C2_Witness ==
    /\ op = "generateInsertRequests"
    /\ \E k \in Positions(requests, IsInsert), j \in Positions(requests, IsNormalReset) :
         /\ Len(requests[k].text) >= 2
         /\ requests[k].text[Len(requests[k].text)] = NL
         /\ requests[j].endIndex = requests[k].index + Len(requests[k].text) - 1

C4_LinkRanges ==
    op = "parseContentForInsertion" =>
        LET links == LinksOf(parsed)
            plain == parsed.plainText
            i == insertionIndex
        IN  /\ Len(links) = SumOccurrences(split(WithoutMarkers(content)), 1)
            /\ \A k \in 1..Len(links) :
                 /\ i <= links[k].startIndex
                 /\ links[k].startIndex < links[k].endIndex
                 /\ links[k].endIndex <= i + Len(plain)
                 /\ k < Len(links) => links[k].endIndex <= links[k + 1].startIndex
                 /\ links[k].url # <<>>
                 /\ \A j \in 1..Len(links[k].url) : links[k].url[j] # ")"
            /\ (\A k \in 1..Len(links) :
                  /\ i <= links[k].startIndex
                  /\ links[k].startIndex < links[k].endIndex
                  /\ links[k].endIndex <= i + Len(plain)
                  /\ k < Len(links) => links[k].endIndex <= links[k + 1].startIndex)
               => Remarked(plain, i, links, Len(links)) = WithoutMarkers(content)

\* C4 witness: a line with a marker and two links, the second after a stripped one
C4_Witness ==
    /\ op = "parseContentForInsertion"
    /\ startsWith(content, H1Marker)
    /\ Len(LinksOf(parsed)) = 2
    /\ LinksOf(parsed)[2].startIndex = insertionIndex + 1

\* C5: every Formatting Request of parseContentForInsertion is a non-empty
\* range inside the inserted text
C5_RangesInsideInsertedText ==
    op = "parseContentForInsertion" =>
        \A k \in 1..Len(parsed.formattingRequests) :
            LET f == parsed.formattingRequests[k]
            IN  /\ insertionIndex <= f.startIndex
                /\ f.startIndex < f.endIndex
                /\ f.endIndex <= insertionIndex + Len(parsed.plainText)

\* C5 witness: a heading or bullet on the last line, ending where the text ends,
\* after an earlier line
C5_Witness ==
    /\ op = "parseContentForInsertion"
    /\ \E k \in 1..Len(parsed.formattingRequests) :
         LET f == parsed.formattingRequests[k]
         IN  /\ f.type \in {"heading", "bullet"}
             /\ f.startIndex > insertionIndex
             /\ f.endIndex = insertionIndex + Len(parsed.plainText)

\* C6: a non-empty list of generateInsertRequests starts with the insertText
\* of plainText at the insertion index; the marker operations follow it in
\* non-increasing order of startIndex
C6_InsertFirstThenDescending ==
    op = "generateInsertRequests" =>
        LET marks == Positions(requests, IsMarkerOp)
        IN  requests # <<>> =>
              /\ requests[1] = insertText(insertionIndex, parsed.plainText)
              /\ parsed.plainText # <<>>
              /\ Positions(requests, IsInsert) = {1}
              /\ Cardinality(marks) = Len(parsed.formattingRequests)
              /\ \A j, k \in marks :
                   j < k => requests[j].startIndex >= requests[k].startIndex

\* C6 witness: two marker operations with different start indices were emitted
C6_Witness ==
    /\ op = "generateInsertRequests"
    /\ \E j, k \in Positions(requests, IsMarkerOp) :
         j < k /\ requests[j].startIndex > requests[k].startIndex

(***************************************************************************)
(* Properties of the heading search (specification SpecFind)              *)
(***************************************************************************)
ExactAt(hs, i, q) == toLowerCase(hs[i].text) = trim(toLowerCase(q))

PartialAt(hs, i, q) == includes(toLowerCase(hs[i].text), trim(toLowerCase(q)))

\* C7: findHeadingByText returns the first heading whose text equals the
\* trimmed query ignoring case; only when there is none, the first heading
\* that contains the query; null only when no heading contains it
C7_ExactMatchFirst ==
    op = "findHeadingByText" =>
        LET hs == findHeadings(document)
            n == Len(hs)
        IN  /\ (\E i \in 1..n : ExactAt(hs, i, searchText)) =>
                 \E i \in 1..n : /\ ExactAt(hs, i, searchText)
                                 /\ heading = hs[i]
                                 /\ \A j \in 1..(i - 1) : ~ExactAt(hs, j, searchText)
            /\ (/\ ~\E i \in 1..n : ExactAt(hs, i, searchText)
                /\ \E i \in 1..n : PartialAt(hs, i, searchText)) =>
                 \E i \in 1..n : /\ PartialAt(hs, i, searchText)
                                 /\ heading = hs[i]
                                 /\ \A j \in 1..(i - 1) : ~PartialAt(hs, j, searchText)
            /\ heading = Null <=> ~\E i \in 1..n : PartialAt(hs, i, searchText)

\* C7 witness: the exact match was returned although an earlier heading
\* contains the query
C7_Witness ==
    /\ op = "findHeadingByText"
    /\ \E i \in 1..Len(findHeadings(document)) :
         /\ heading = findHeadings(document)[i]
         /\ ExactAt(findHeadings(document), i, searchText)
         /\ \E j \in 1..(i - 1) :
              /\ PartialAt(findHeadings(document), j, searchText)
              /\ ~ExactAt(findHeadings(document), j, searchText)

(***************************************************************************)
(* Properties of the Locator and the tool operations (specification Spec)  *)
(***************************************************************************)
LastBlock(doc) == doc.body.content[Len(doc.body.content)]

\* the headings of the snapshot that precede h
HeadingsBefore(doc, h) ==
    {g \in {findHeadings(doc)[i] : i \in 1..Len(findHeadings(doc))} :
        g.startIndex < h.startIndex}

\* the list handed to batchUpdate by the call, <<>> when there was no call
Applied == IF applied = <<>> THEN <<>> ELSE applied[1]

\* C1: when the section body [heading.endIndex, sectionEnd) is not empty, the
\* list replaceSection hands to batchUpdate starts with the deleteContentRange
\* of exactly that range, before the insertText at heading.endIndex and before
\* every other operation
C1_DeleteBeforeInsert ==
    (op = "replaceSection" /\ heading # Null) =>
        /\ Len(applied) = 1
        /\ heading.endIndex < sectionEnd =>
             /\ Applied[1] = generateDeleteRequest(heading.endIndex, sectionEnd)
             /\ Positions(Applied, IsDelete) = {1}
             /\ Positions(Applied, IsInsert) # {}
             /\ \A k \in Positions(Applied, IsInsert) :
                  k > 1 /\ Applied[k].index = heading.endIndex
        /\ heading.endIndex >= sectionEnd => Positions(Applied, IsDelete) = {}

\* C1 witness: a non-empty section body was replaced
C1_Witness ==
    /\ op = "replaceSection"
    /\ heading # Null
    /\ sectionEnd > heading.endIndex + 1
    /\ Len(Applied) >= 2
    /\ IsDelete(Applied[1])
    /\ IsInsert(Applied[2])

\* C8 as stated: the section end of a heading is never before the heading's end
C8_SectionEndNotBeforeHeadingEnd ==
    (heading # Null /\ sectionEnd # -1 /\ op # "findSectionEndOfHeld")
    => sectionEnd >= heading.endIndex

\* C8 amended: the section end is at or after the heading's end, except for a
\* heading that is the last paragraph of the document, whose section end is
\* the document end index lastBlock.endIndex - 1 = heading.endIndex - 1
C8_SectionEndUnlessLastParagraph ==
    (heading # Null /\ sectionEnd # -1 /\ op # "findSectionEndOfHeld") =>
        IF heading.endIndex = LastBlock(document).endIndex
        THEN sectionEnd = heading.endIndex - 1
        ELSE sectionEnd >= heading.endIndex

\* C8 witness: the heading is the last of several paragraphs
C8_Witness ==
    /\ op = "findSectionEnd"
    /\ Len(document.body.content) >= 3
    /\ heading.endIndex = LastBlock(document).endIndex
    /\ sectionEnd = heading.endIndex - 1

\* C9 as stated: the section of a deeper heading ends no later than the
\* section of any shallower heading before it
C9_NestingForAnyEarlierHeading ==
    op = "findSectionEnd" =>
        \A h1 \in HeadingsBefore(document, heading) :
            heading.level > h1.level => sectionEnd <= findSectionEnd(document, h1)

\* C9 amended: the same, for a shallower heading h1 before it with no heading
\* of h1's level or higher in between (the heading lies in h1's section)
C9_NestingInsideSection ==
    op = "findSectionEnd" =>
        \A h1 \in HeadingsBefore(document, heading) :
            (/\ heading.level > h1.level
             /\ \A m \in HeadingsBefore(document, heading) :
                    m.startIndex > h1.startIndex => m.level > h1.level)
            => sectionEnd <= findSectionEnd(document, h1)

\* C9 witness: a subsection that ends strictly inside its parent section
C9_Witness ==
    /\ op = "findSectionEnd"
    /\ \E h1 \in HeadingsBefore(document, heading) :
         /\ heading.level > h1.level
         /\ \A m \in HeadingsBefore(document, heading) :
                m.startIndex > h1.startIndex => m.level > h1.level
         /\ sectionEnd < findSectionEnd(document, h1)

\* C10: no deleteContentRange of replaceDocument, replaceSection or
\* deleteSection reaches the final newline (endIndex <= lastBlock.endIndex - 1);
\* replaceDocument lists the delete of [1, lastBlock.endIndex - 1) first and
\* the insert at index 1 after it, and no delete when that range is empty
C10_FinalNewlineNeverDeleted ==
    op \in {"replaceDocument", "replaceSection", "deleteSection"} =>
        IF document = NoDocument THEN Positions(requests, IsDelete) = {}
        ELSE /\ \A k \in Positions(requests, IsDelete) :
                  requests[k].endIndex <= LastBlock(document).endIndex - 1
             /\ op = "replaceDocument" =>
                  /\ applied = IF requests = <<>> THEN <<>> ELSE <<requests>>
                  /\ \A k \in Positions(requests, IsInsert) : requests[k].index = 1
                  /\ parseContentForInsertion(content, 1).plainText # <<>>
                       => Positions(requests, IsInsert) # {}
                  /\ IF LastBlock(document).endIndex - 1 > 1
                     THEN /\ requests[1] = generateDeleteRequest(
                                               1, LastBlock(document).endIndex - 1)
                          /\ Positions(requests, IsDelete) = {1}
                          /\ Positions(requests, IsInsert) \subseteq {2}
                     ELSE Positions(requests, IsDelete) = {}

\* C10 witness: replaceDocument on a document with text
C10_Witness ==
    /\ op = "replaceDocument"
    /\ document # NoDocument
    /\ Len(requests) >= 2
    /\ requests[1] = generateDeleteRequest(1, LastBlock(document).endIndex - 1)
    /\ requests[1].endIndex > 2
    /\ IsInsert(requests[2])

\* the document end index: the last block's end without the final newline
EndIndexOf(doc) == IF doc = NoDocument THEN 1 ELSE LastBlock(doc).endIndex - 1

Shifted(r, d) == [r EXCEPT !.startIndex = @ + d, !.endIndex = @ + d]

ShiftedAll(rs, d) == [k \in 1..Len(rs) |-> Shifted(rs[k], d)]

MarkerOps(rs) == SelectSeq(rs, IsMarkerOp)

\* C11: appendContent inserts at the document end index e; for e <= 1 the
\* inserted text is the content's plain text, for e > 1 it is "\n" followed by
\* the content's plain text and every marker range is the range of the
\* content alone at e, shifted by one
C11_AppendSeparator ==
    op = "appendContent" =>
        /\ \A k \in Positions(requests, IsInsert) :
             k = 1 /\ requests[k].index = EndIndexOf(document)
        /\ EndIndexOf(document) <= 1 =>
             /\ requests = generateInsertRequests(content, EndIndexOf(document))
             /\ \A k \in Positions(requests, IsInsert) :
                  requests[k].text =
                      parseContentForInsertion(content, EndIndexOf(document)).plainText
        /\ EndIndexOf(document) > 1 =>
             /\ Positions(requests, IsInsert) = {1}
             /\ requests[1].text =
                    <<NL>> \o parseContentForInsertion(content, EndIndexOf(document)).plainText
             /\ MarkerOps(requests) =
                    ShiftedAll(MarkerOps(generateInsertRequests(
                                             content, EndIndexOf(document))), 1)

\* C11 witness: marked text appended to a document with text
C11_Witness ==
    /\ op = "appendContent"
    /\ EndIndexOf(document) > 1
    /\ requests[1].text = <<NL, "x", NL, "a">>
    /\ Len(MarkerOps(requests)) = 3

(***************************************************************************)
(* Properties of batchOperations (specification SpecBatch)                 *)
(***************************************************************************)
Failed(rs) == {k \in 1..Len(rs) : ~rs[k].success}

Succeeded(rs) == {k \in 1..Len(rs) : rs[k].success}

\* C12: with stopOnError, once sub-operation k (0-based) has failed the loop
\* is left: results holds the entries 0..k in order, 0..k-1 successful and k
\* failed with the error, no call to the service belongs to a later
\* sub-operation, and the report has completedOperations = k, success = false
C12_StopOnFirstError ==
    stopOnError =>
        \A k \in Failed(results) :
            /\ k = Len(results)
            /\ pc \in {"break", "done"}
            /\ \A j \in 1..Len(results) : results[j].index = j - 1
            /\ Succeeded(results) = 1..(k - 1)
            /\ results[k].message[1] = "throw"
            /\ completedOperations = k - 1
            /\ \A e \in 1..Len(events) : events[e].index <= k - 1
            /\ pc = "done" =>
                 /\ result.success = FALSE
                 /\ result.completedOperations = k - 1
                 /\ result.results = results

\* C12 witness: the second of three sub-operations failed and the batch ended
C12_Witness ==
    /\ stopOnError
    /\ pc = "done"
    /\ Len(operations) = 3
    /\ Len(results) = 2
    /\ results[1].success
    /\ ~results[2].success
    /\ events # <<>>

\* C13: without stopOnError the report has one entry per sub-operation, entry
\* i at position i, completedOperations counts the successful entries,
\* success holds exactly when all succeeded, and the service calls follow the
\* list order with at most one fetch and one apply per sub-operation
C13_ContinueOnError ==
    (~stopOnError /\ pc = "done") =>
        /\ Len(results) = Len(operations)
        /\ \A j \in 1..Len(results) : results[j].index = j - 1
        /\ result.results = results
        /\ result.totalOperations = Len(operations)
        /\ result.completedOperations = Cardinality(Succeeded(results))
        /\ result.success <=> Failed(results) = {}
        /\ \A a, b \in 1..Len(events) :
             a < b => \/ events[a].index < events[b].index
                      \/ /\ events[a].index = events[b].index
                         /\ events[a].call = "get"
                         /\ events[b].call = "batchUpdate"

\* C13 witness: a failure followed by a success
C13_Witness ==
    /\ ~stopOnError
    /\ pc = "done"
    /\ Len(results) = 3
    /\ ~results[1].success
    /\ results[2].success
    /\ ~results[3].success

\* C14: the calls to the service are in sub-operation order, and the batch of
\* a position-based sub-operation directly follows the fetch of the same
\* sub-operation and is computed from the snapshot that fetch returned
C14_SequentialOwnSnapshot ==
    /\ \A a, b \in 1..Len(events) : a < b => events[a].index <= events[b].index
    /\ \A e \in 1..Len(events) :
         (/\ events[e].call = "batchUpdate"
          /\ operations[events[e].index + 1].operation \in FetchingOperations)
         => /\ e > 1
            /\ events[e - 1].call = "get"
            /\ events[e - 1].index = events[e].index
            /\ events[e].document = events[e - 1].document
    /\ pc = "fetched" =>
         /\ events[Len(events)] = [call |-> "get", index |-> loopIndex,
                                   document |-> document]
         /\ document = remote

\* C14 witness: two sub-operations applied batches computed from different
\* snapshots
C14_Witness ==
    /\ Len(events) = 4
    /\ events[2].call = "batchUpdate"
    /\ events[4].call = "batchUpdate"
    /\ events[3].call = "get"
    /\ events[2].document # events[4].document

HeadingOperations ==
    {"insertBeforeHeading", "insertAfterHeading", "appendToSection",
     "replaceSection", "deleteSection"}

\* C15: when no heading of the snapshot contains the query, the heading
\* operations throw 'Heading not found: "<query>"' with the query as given,
\* hand nothing to batchUpdate and leave the document as it was
C15_HeadingNotFound ==
    (/\ op \in HeadingOperations
     /\ \A k \in 1..Len(findHeadings(document)) :
            ~PartialAt(findHeadings(document), k, searchText))
    => /\ result = <<"throw", "Heading not found", searchText>>
       /\ heading = Null
       /\ applied = <<>>
       /\ remote = document

\* C15 witness: a document with headings, none of which contains the query
C15_Witness ==
    /\ op = "replaceSection"
    /\ Len(findHeadings(document)) >= 2
    /\ searchText = <<"x", " ">>
    /\ result = <<"throw", "Heading not found", <<"x", " ">>>>
    /\ applied = <<>>

(***************************************************************************)
(* Properties of the Reader (specification SpecReader)                     *)
(***************************************************************************)
\* the paragraph and table blocks of a document, in order
BlocksOf(doc) == SelectSeq(doc.body.content, LAMBDA e : isParagraph(e) \/ isTable(e))

\* the concatenated text of the runs of a paragraph is empty after trimming
IsBlank(e) == isParagraph(e) /\ trim(runsText(e.paragraph.elements, 1)) = <<>>

IsHeadingParagraph(e) == isParagraph(e) /\ levelOf(e.paragraph.namedStyleType) > 0

\* C16: in a document where every block gives a line, the line of a heading
\* paragraph starts with its [Hn] prefix, bulleted or not, and only bulleted
\* paragraphs that are not headings get the bullet prefix
C16_HeadingPrefixOverBullet ==
    (/\ op = "documentToText"
     /\ \A k \in 1..Len(BlocksOf(document)) : ~IsBlank(BlocksOf(document)[k]))
    => /\ Len(textLines) = Len(BlocksOf(document))
       /\ \A k \in 1..Len(textLines) :
            /\ IsHeadingParagraph(BlocksOf(document)[k]) =>
                 startsWith(textLines[k],
                            headingPrefix(BlocksOf(document)[k].paragraph.namedStyleType))
            /\ startsWith(textLines[k], BulletMarker) =>
                 /\ BlocksOf(document)[k].paragraph.bullet
                 /\ ~IsHeadingParagraph(BlocksOf(document)[k])

\* C17: every paragraph that is empty after trimming gives exactly one blank
\* line, and there are as many lines as paragraph and table blocks
C17_BlankParagraphsKept ==
    op = "documentToText" =>
        /\ Len(textLines) = Len(BlocksOf(document))
        /\ \A k \in 1..Len(BlocksOf(document)) :
             IsBlank(BlocksOf(document)[k]) => textLines[k] = <<>>

RunsOf(doc) ==
    UNION {{e.paragraph.elements[k] : k \in 1..Len(e.paragraph.elements)} :
               e \in {BlocksOf(doc)[j] : j \in 1..Len(BlocksOf(doc))}
                     \cap {x \in {BlocksOf(doc)[j] : j \in 1..Len(BlocksOf(doc))} :
                               isParagraph(x)}}

LinkRunsOf(doc) == {r \in RunsOf(doc) : r.link # <<>>}

AllParagraphs(doc) == \A k \in 1..Len(BlocksOf(doc)) : isParagraph(BlocksOf(doc)[k])

\* plain paragraphs: NORMAL_TEXT, no bullet, no link, no marker character
IsPlainDocument(doc) ==
    /\ AllParagraphs(doc)
    /\ LinkRunsOf(doc) = {}
    /\ \A k \in 1..Len(BlocksOf(doc)) :
         /\ BlocksOf(doc)[k].paragraph.namedStyleType = "NORMAL_TEXT"
         /\ ~BlocksOf(doc)[k].paragraph.bullet
    /\ \A r \in RunsOf(doc) : \A j \in 1..Len(r.content) :
         r.content[j] \notin {"[", "]", "(", ")", "*", BULLET}

RequestsOfType(p, t) ==
    {p.formattingRequests[k] : k \in 1..Len(p.formattingRequests)}
        \cap {f \in {p.formattingRequests[k] : k \in 1..Len(p.formattingRequests)} :
                  f.type = t}

\* C18: with the marked text of a document parsed again at index 1, a plain
\* document gives back its text without the final newline and no Formatting
\* Request; a document of paragraphs gives, for every paragraph with text, a
\* heading request of its level exactly when it is a heading and a bullet
\* request exactly when it is bulleted, and a link request over the label of
\* every link run
C18_RoundTrip ==
    op = "roundTrip" =>
        /\ IsPlainDocument(document) =>
             /\ parsed.plainText = stripFinalNewline(bodyText(document.body.content, 1))
             /\ parsed.formattingRequests = <<>>
        /\ AllParagraphs(document) =>
             /\ \A k \in {j \in 1..Len(BlocksOf(document)) :
                              ~IsBlank(BlocksOf(document)[j])} :
                  /\ IsHeadingParagraph(BlocksOf(document)[k]) <=>
                       \E f \in RequestsOfType(parsed, "heading") :
                           /\ f.level = levelOf(BlocksOf(document)[k].paragraph.namedStyleType)
                           /\ f.startIndex = BlocksOf(document)[k].startIndex
                  /\ BlocksOf(document)[k].paragraph.bullet <=>
                       \E f \in RequestsOfType(parsed, "bullet") :
                           f.startIndex = BlocksOf(document)[k].startIndex
             /\ \A r \in LinkRunsOf(document) :
                  \E f \in RequestsOfType(parsed, "link") :
                      /\ f.url = r.link
                      /\ f.startIndex = r.startIndex
                      /\ f.endIndex = r.startIndex + Len(stripFinalNewline(r.content))
             /\ Cardinality(RequestsOfType(parsed, "link"))
                    = Cardinality(LinkRunsOf(document))

(***************************************************************************)
(* Properties of the text search (specification SpecFindText)              *)
(***************************************************************************)
\* the needle occurs at 0-based offset p of the text
OccursAt(text, p, needle, sensitive) ==
    /\ p + Len(needle) <= Len(text)
    /\ IF sensitive THEN SubSeq(text, p + 1, p + Len(needle)) = needle
       ELSE toLowerCase(SubSeq(text, p + 1, p + Len(needle))) = toLowerCase(needle)

\* one match for every offset of every text run where the needle occurs
ExpectedMatches(doc, needle, sensitive) ==
    UNION {{[text |-> SubSeq(r.content, p + 1, p + Len(needle)),
             startIndex |-> r.startIndex + p,
             endIndex |-> r.startIndex + p + Len(needle)] :
                p \in {q \in 0..Len(r.content) : OccursAt(r.content, q, needle, sensitive)}} :
               r \in RunsOf(doc)}

\* C19: for a non-empty needle the matches are, in document order and once
\* each, the occurrences of the needle inside single text runs, overlapping
\* ones included, with startIndex = run.startIndex + p and
\* endIndex = startIndex + len(needle)
C19_FindTextMatches ==
    (op = "findTextInDocument" /\ searchText # <<>>) =>
        /\ {result[k] : k \in 1..Len(result)}
               = ExpectedMatches(document, searchText, caseSensitive)
        /\ \A a, b \in 1..Len(result) :
               a < b => result[a].startIndex < result[b].startIndex

\* C19 witness: two overlapping matches of "aa" in a run, and a document
\* where "aa" also spans two runs without being matched there
C19_Witness ==
    /\ op = "findTextInDocument"
    /\ searchText = <<"a", "a">>
    /\ Len(result) = 2
    /\ result[2].startIndex = result[1].startIndex + 1
    /\ \E r \in RunsOf(document) : r.content = <<"a">>

(***************************************************************************)
(* Properties of the tool operations on the service's document (Spec)      *)
(***************************************************************************)
\* the texts of the paragraphs of a document, without their newlines
ParagraphTexts(doc) ==
    [k \in 1..Len(BlocksOf(doc)) |->
        stripFinalNewline(runsText(BlocksOf(doc)[k].paragraph.elements, 1))]

\* the paragraphs with text of doc that start at index
ParagraphsAt(doc, index) ==
    {k \in 1..Len(BlocksOf(doc)) :
        /\ BlocksOf(doc)[k].startIndex = index
        /\ BlocksOf(doc)[k].endIndex > index + 1}

\* C20: when insertAfterHeading or appendToSection inserts where an existing
\* paragraph with text starts after the heading, the document afterwards holds every earlier paragraph
\* unchanged, then the inserted lines as paragraphs of their own, then the
\* paragraph at the insertion index and all later ones unchanged
C20_InsertKeepsParagraphs ==
    (/\ op \in {"insertAfterHeading", "appendToSection"}
     /\ applied # <<>>
     /\ remote # document
     /\ requests[1].index >= heading.endIndex)
    => \A k \in ParagraphsAt(document, requests[1].index) :
         /\ Len(ParagraphTexts(remote)) >= Len(ParagraphTexts(document))
         /\ SubSeq(ParagraphTexts(remote), 1, k - 1)
                = SubSeq(ParagraphTexts(document), 1, k - 1)
         /\ SubSeq(ParagraphTexts(remote),
                   Len(ParagraphTexts(remote)) - (Len(ParagraphTexts(document)) - k),
                   Len(ParagraphTexts(remote)))
                = SubSeq(ParagraphTexts(document), k, Len(ParagraphTexts(document)))

\* the named styles of the paragraphs of a document, in order
ParagraphStyles(doc) ==
    [k \in 1..Len(BlocksOf(doc)) |-> BlocksOf(doc)[k].paragraph.namedStyleType]

\* the requests of a list up to its NORMAL_TEXT paragraph reset
ThroughReset(rs) ==
    SubSeq(rs, 1, CHOOSE k \in Positions(rs, IsNormalReset) :
                      \A j \in Positions(rs, IsNormalReset) : k <= j)

\* the document once the requests up to the reset are applied to the snapshot
AfterReset == snapshotOf(applyRequests(bodyOf(document), ThroughReset(requests), 1))

\* a paragraph of the snapshot that lies outside every range the list deletes
Survives(e, rs) ==
    \A k \in Positions(rs, IsDelete) :
        e.endIndex <= rs[k].startIndex \/ e.startIndex >= rs[k].endIndex

\* the styles, in order, of the paragraphs of the snapshot the call keeps
SurvivorStyles ==
    ParagraphStyles([body |-> [content |->
        SelectSeq(BlocksOf(document), LAMBDA e : Survives(e, requests))]])

InsertingOperations ==
    {"appendContent", "insertBeforeHeading", "insertAfterHeading",
     "appendToSection", "replaceSection"}

\* C21: after the insert and the NORMAL_TEXT reset of an accepted batch of
\* appendContent, insertBeforeHeading, insertAfterHeading, appendToSection or
\* replaceSection, the paragraphs that existed before and were not deleted
\* still have their named styles: the kept styles are a prefix and a suffix
\* of the styles of the document, the new paragraphs lying in between
C21_ResetKeepsExistingStyles ==
    (/\ op \in InsertingOperations
     /\ applied # <<>>
     /\ result[1] = "return"
     /\ Positions(requests, IsNormalReset) # {})
    => \E a \in 0..Len(SurvivorStyles) :
         /\ Len(ParagraphStyles(AfterReset)) >= Len(SurvivorStyles)
         /\ SubSeq(ParagraphStyles(AfterReset), 1, a) = SubSeq(SurvivorStyles, 1, a)
         /\ SubSeq(ParagraphStyles(AfterReset),
                   Len(ParagraphStyles(AfterReset)) - (Len(SurvivorStyles) - a) + 1,
                   Len(ParagraphStyles(AfterReset)))
                = SubSeq(SurvivorStyles, a + 1, Len(SurvivorStyles))

(***************************************************************************)
(* Properties of one tool call step by step (SpecTool)                     *)
(***************************************************************************)
CallsOf(name) == {k \in 1..Len(events) : events[k].call = name}

ErrorOf(e) == IF e.call = "get" THEN "documents.get" ELSE "batchUpdate"

\* C22: a position-based tool fetches the snapshot exactly once, hands
\* documents.batchUpdate at most one batch, after the fetch, holding exactly
\* the requests computed from the fetched snapshot, and a failing fetch or
\* apply is the last call of the tool and its error is the tool's outcome
C22_OneFetchOneApply ==
    /\ Cardinality(CallsOf("get")) = (IF pc = "fetch" THEN 0 ELSE 1)
    /\ Cardinality(CallsOf("batchUpdate")) <= 1
    /\ \A k \in CallsOf("batchUpdate") :
         /\ k = 2
         /\ events[1].call = "get"
         /\ events[1].ok
         /\ events[k].requests
                = toolPlan(op, events[1].document, searchText, content).requests
    /\ \A k \in 1..Len(events) :
         ~events[k].ok => /\ k = Len(events)
                          /\ pc = "done"
                          /\ result = <<"throw", ErrorOf(events[k])>>

\* a tool whose batch, computed from a snapshot another client has since
\* changed, was refused
C22_Witness ==
    /\ pc = "done"
    /\ Len(events) = 2
    /\ events[2].call = "batchUpdate"
    /\ ~events[2].ok
    /\ remote # events[1].document
    /\ result = <<"throw", "batchUpdate">>

(***************************************************************************)
(* Properties of the MCP server and the Lambda handler (SpecServer)        *)
(***************************************************************************)
Called(cs, name) == \E k \in 1..Len(cs) : cs[k] = local(name)

\* the calls to the document and file services among the calls of an event
Contacts(cs) ==
    {cs[k] : k \in {j \in 1..Len(cs) :
        cs[j].call \notin {"validateSecretToken", "JSON.parse", "handleMCPRequest"}}}

\* the event reached executeTool with the tool `name`
Executed(e, cs, name) ==
    /\ Called(cs, "handleMCPRequest")
    /\ e.body.value.method = "tools/call"
    /\ e.body.value.name = name

NoDocumentIdMessage == "documentId is required (provide it or use set_document first)"

\* the event ran a document tool without a documentId argument
WithoutDocumentId(e, cs) ==
    /\ \E name \in DOMAIN DocumentTools : Executed(e, cs, name)
    /\ e.body.value.arguments.documentId = <<>>

\* C23: in every step of the server, currentDocument changes only when
\* set_document found the title, and then names the document of its url;
\* every other event, resolve_url and a failed set_document included, leaves
\* it as it was; a document tool called without documentId contacts the
\* service for the current document only, and with none set it answers
\* "documentId is required" without contacting the service
C23_CurrentDocument ==
    [][/\ (/\ Executed(event', calls', "set_document")
           /\ response'.body.kind = "result")
          => currentDocument'
               = [id |-> extractDocumentId(event'.body.value.arguments.url),
                  name |-> titleOf(extractDocumentId(event'.body.value.arguments.url))]
       /\ ~(/\ Executed(event', calls', "set_document")
            /\ response'.body.kind = "result")
          => currentDocument' = currentDocument
       /\ WithoutDocumentId(event', calls')
          => IF currentDocument = NoCurrentDocument
             THEN /\ response'.body.kind = "error"
                  /\ response'.body.message = NoDocumentIdMessage
                  /\ Contacts(calls') = {}
             ELSE /\ response'.body.message # NoDocumentIdMessage
                  /\ \A c \in Contacts(calls') : c.documentId = currentDocument.id
    ]_vars

\* a document was set from a url, and the tool called last without
\* documentId called its function for that document
C23_Witness ==
    /\ currentDocument = [id |-> <<"B">>, name |-> titleOf(<<"B">>)]
    /\ WithoutDocumentId(event, calls)
    /\ Contacts(calls) = {contact("appendContent", <<"B">>)}

\* C24: handleMCPRequest, and with it every tool, is called only for a POST
\* event, after validateSecretToken was called and accepted the token of the
\* path; a POST event whose token is missing or is not the secret token is
\* answered 403 with nothing called after validateSecretToken, the body not
\* parsed; an event that is neither POST nor OPTIONS is answered 405 with
\* nothing called at all
C24_TokenBeforeTools ==
    /\ Called(calls, "handleMCPRequest")
       => /\ event.httpMethod = "POST"
          /\ calls[1] = local("validateSecretToken")
          /\ event.token = SecretToken
    /\ Contacts(calls) # {} => Called(calls, "handleMCPRequest")
    /\ (event.httpMethod = "POST" /\ (event.token = <<>> \/ event.token # SecretToken))
       => /\ response.statusCode = 403
          /\ calls = <<local("validateSecretToken")>>
    /\ event.httpMethod \notin {"POST", "OPTIONS", "none"}
       => /\ response.statusCode = 405
          /\ calls = <<>>

\* a well-formed set_document request posted with a wrong token was refused
C24_Witness ==
    /\ event.httpMethod = "POST"
    /\ event.token = <<"w">>
    /\ event.body.kind = "json"
    /\ event.body.value.method = "tools/call"
    /\ event.body.value.name = "set_document"
    /\ event.body.value.arguments.url = <<"A">>
    /\ response.statusCode = 403
    /\ currentDocument = NoCurrentDocument

(***************************************************************************)
(* More properties of the Locator and the tool operations (Spec)           *)
(***************************************************************************)
\* the headings of the snapshot after h, in document order, that are not
\* deeper than h
EndersOf(doc, h) ==
    {g \in {findHeadings(doc)[i] : i \in 1..Len(findHeadings(doc))} :
        g.startIndex > h.startIndex /\ g.level <= h.level}

IsHeadingOf(doc, h) ==
    \E i \in 1..Len(findHeadings(doc)) : findHeadings(doc)[i].startIndex = h.startIndex

DocumentEnd(doc) == IF doc.body.content = <<>> THEN 1 ELSE LastBlock(doc).endIndex - 1

\* C25: for a heading h, of the snapshot or held from another one,
\* findSectionEnd is the least startIndex of the headings after h whose level
\* is at most h.level, deeper headings in between being passed over, and it
\* is the document end index, lastBlock.endIndex - 1 or 1 for an empty body,
\* when there is no such heading or no heading of the snapshot starts at
\* h.startIndex
C25_SectionEnd ==
    (op \in {"findSectionEnd", "findSectionEndOfHeld", "replaceSection",
             "appendToSection", "deleteSection"}
     /\ heading # Null)
    => IF IsHeadingOf(document, heading) /\ EndersOf(document, heading) # {}
       THEN /\ \E g \in EndersOf(document, heading) : sectionEnd = g.startIndex
            /\ \A g \in EndersOf(document, heading) : sectionEnd <= g.startIndex
       ELSE sectionEnd = DocumentEnd(document)

\* a section that holds a deeper heading and ends at a later heading
C25_Witness ==
    /\ op = "findSectionEnd"
    /\ IsHeadingOf(document, heading)
    /\ \E g \in {findHeadings(document)[i] : i \in 1..Len(findHeadings(document))} :
         /\ g.level > heading.level
         /\ g.startIndex > heading.startIndex
         /\ g.startIndex < sectionEnd
    /\ sectionEnd < DocumentEnd(document)

(***************************************************************************)
(* The list of generateInsertRequests applied by the service (SpecParser)  *)
(***************************************************************************)
IsReset(r) ==
    \/ IsNormalReset(r)
    \/ r.kind = "updateTextStyle" /\ r.fields = BooleanStyleFields

\* a body of one HEADING_3 paragraph whose final newline is at index
Carrier(index) ==
    [text |-> [j \in 1..index |-> IF j = index THEN NL ELSE "c"],
     styles |-> [j \in 1..index |-> "HEADING_3"]]

\* the carrier once the service has applied the list at the insertion index
AfterList == applyRequests(Carrier(insertionIndex), requests, 1)

HeadingStyle(level) ==
    IF level = 1 THEN "HEADING_1" ELSE IF level = 2 THEN "HEADING_2" ELSE "HEADING_3"

\* the named style of the paragraph of position j
StyleAt(b, j) == b.styles[paragraphEnd(b.text, j)]

\* C26: in a non-empty list of generateInsertRequests the NORMAL_TEXT reset
\* and the boolean text-style reset stand before every heading, bullet and
\* link operation; the service accepts the list, and after it has applied the
\* list in order the paragraph of each heading line has the style of its
\* level, and each bullet line and each link label has its operation in the
\* list, after both resets
C26_ResetsBeforeMarkers ==
    (op = "generateInsertRequests" /\ requests # <<>>)
    => /\ \A r \in Positions(requests, IsReset), m \in Positions(requests, IsMarkerOp) :
            r < m
       /\ \E r \in Positions(requests, IsReset) : requests[r].kind = "updateTextStyle"
       /\ AfterList # Rejected
       /\ \A i \in 1..Len(parsed.formattingRequests) :
            \E m \in Positions(requests, IsMarkerOp) :
              /\ requests[m].startIndex = parsed.formattingRequests[i].startIndex
              /\ requests[m].endIndex = parsed.formattingRequests[i].endIndex
              /\ \A r \in Positions(requests, IsReset) : r < m
              /\ CASE parsed.formattingRequests[i].type = "heading" ->
                        /\ requests[m].kind = "updateParagraphStyle"
                        /\ StyleAt(AfterList, parsed.formattingRequests[i].startIndex)
                             = HeadingStyle(parsed.formattingRequests[i].level)
                   [] parsed.formattingRequests[i].type = "bullet" ->
                        requests[m].kind = "createParagraphBullets"
                   [] OTHER ->
                        /\ requests[m].kind = "updateTextStyle"
                        /\ requests[m].url = parsed.formattingRequests[i].url

\* a heading line of level 1 and a link were inserted into the HEADING_3
\* carrier: the line before the heading was reset to NORMAL_TEXT
C26_Witness ==
    /\ op = "generateInsertRequests"
    /\ Positions(requests, IsNormalReset) # {}
    /\ \E m \in Positions(requests, IsMarkerOp) :
         /\ requests[m].kind = "updateParagraphStyle"
         /\ requests[m].namedStyleType = "HEADING_1"
         /\ requests[m].startIndex > insertionIndex
         /\ StyleAt(AfterList, requests[m].startIndex) = "HEADING_1"
         /\ StyleAt(AfterList, insertionIndex) = "NORMAL_TEXT"
    /\ \E m \in Positions(requests, IsMarkerOp) : requests[m].kind = "updateTextStyle"

(***************************************************************************)
(* Validity of the requests of the tool operations (Spec)                  *)
(***************************************************************************)
\* the body the service holds when it comes to request k of the list
BodyBefore(k) == applyRequests(bodyOf(document), SubSeq(requests, 1, k - 1), 1)

\* C27: every insertText of appendContent, insertBeforeHeading,
\* insertAfterHeading, appendToSection and replaceSection names an index
\* from 1 to the position of the final newline of the body the service holds
\* when it applies the insert, for every document that has paragraphs
C27_InsertIndexValid ==
    (op \in InsertingOperations /\ applied # <<>> /\ document # NoDocument)
    => \A k \in Positions(requests, IsInsert) :
         /\ 1 <= requests[k].index
         /\ requests[k].index <= Len(BodyBefore(k).text)

\* C28: every deleteContentRange of deleteSection, replaceSection and
\* replaceDocument has startIndex < endIndex
C28_DeleteRangeNotEmpty ==
    op \in {"deleteSection", "replaceSection", "replaceDocument"}
    => \A k \in Positions(requests, IsDelete) :
         requests[k].startIndex < requests[k].endIndex

\* C29: extractSectionContent selects the heading findHeadingByText selects
\* for the same document and query, and with includeSubsections = true its
\* section end is findSectionEnd of that heading
C29_SameHeadingAsEditing ==
    op = "extractSectionContent" =>
        /\ heading = findHeadingByText(document, searchText)
        /\ (includeSubsections /\ heading # Null) =>
               sectionEnd = findSectionEnd(document, heading)

\* findTextInDocument returns (SpecScanLive)
FindTextReturns == <>(op = "findTextInDocument")

\* with a needle that is not empty, findTextInDocument returns (SpecScanLive)
NonEmptyNeedleReturns == (searchText # <<>>) => FindTextReturns

\* C30: findTextInDocument terminates for every document and every needle, the
\* empty needle included: no iteration of its while loop leaves searchStart
\* where it was, an iteration that does being repeated for ever
C30_FindTextTerminates ==
    [][(op = "while" /\ op' = "while") => searchStart' # searchStart]_vars

====
